---- MODULE Spec2Model ----
(***************************************************************************)
(* Open Margins proxy servers: the book-catalogue aggregation             *)
(* (GET /api/books), its junk filter and in-memory cache, and the host     *)
(* validation of GET /api/toc and GET /api/chapter.                        *)
(*                                                                         *)
(* Two shapes of /api/books exist in the repository:                       *)
(*   "parallel"   src/nova/server.js (Nova) and the second server of       *)
(*                src/sylva/server.js (Companion): cache, page 1, then     *)
(*                pages 2..N at once with Promise.all;                     *)
(*   "sequential" src/server.js (Activity Builder) and the first server    *)
(*                of src/sylva/server.js (Sylva): no cache, a while loop   *)
(*                that awaits one page at a time.                          *)
(* JavaScript strings are TLA+ strings; TLC treats them as sequences of    *)
(* one-character strings (Len, SubSeq, \o).                                *)
(***************************************************************************)
EXTENDS Integers, Sequences, FiniteSets, TLC

\* ------------------------------------------------------------------ bounds
\* /api/books requests accepted in one run.
MaxRequests == 2
\* Clock advances in one run.
MaxTicks == 2
\* Upstream fetches that fail in one run.
MaxFailures == 1
\* /api/toc and /api/chapter requests accepted in one run.
MaxContentRequests == 1
\* /api/fetch-url requests accepted in one run.
MaxFetchRequests == 1
\* Pieces of markup an htmlToPlainText argument is made of.
MaxTokens == 3
\* half timeouts a /api/fetch-url body read is followed for
MaxFetchTicks == 3
\* POST /api/generate requests accepted in one run.
MaxGenerateRequests == 1

\* ------------------------------------------------------- JavaScript values
\* undefined / null of a string-valued property.
UNDEFINED == "<undefined>"
\* x || d  for a string-or-undefined x.
OrElse(x, d) == IF x = UNDEFINED \/ x = "" THEN d ELSE x

\* An optional value: <<>> is null, <<v>> is v.
Null == <<>>
Some(v) == <<v>>
Truthy(o) == Len(o) = 1
Val(o) == o[1]

Max(a, b) == IF a >= b THEN a ELSE b

\* ----------------------------------------------------------------- strings
CharAt(s, i) == SubSeq(s, i, i)

\* String.prototype.includes
Includes(s, k) ==
  \E i \in 1..(Len(s) - Len(k) + 1) : SubSeq(s, i, i + Len(k) - 1) = k

\* String.prototype.indexOf, 1-based; 0 when absent.
IndexOf(s, k) ==
  IF Includes(s, k)
  THEN CHOOSE i \in 1..(Len(s) - Len(k) + 1) :
         /\ SubSeq(s, i, i + Len(k) - 1) = k
         /\ \A j \in 1..(i - 1) : SubSeq(s, j, j + Len(k) - 1) # k
  ELSE 0

\* String.prototype.replace with a string pattern: the first occurrence only.
ReplaceFirst(s, k, r) ==
  IF ~Includes(s, k) THEN s
  ELSE LET i == IndexOf(s, k)
       IN SubSeq(s, 1, i - 1) \o r \o SubSeq(s, i + Len(k), Len(s))

UpperLetters == "ABCDEFGHIJKLMNOPQRSTUVWXYZ"
LowerLetters == "abcdefghijklmnopqrstuvwxyz"

IsUpper(c) == Includes(UpperLetters, c)
LowerChar(c) == IF IsUpper(c) THEN CharAt(LowerLetters, IndexOf(UpperLetters, c)) ELSE c

RECURSIVE toLowerCase(_)
toLowerCase(s) ==
  IF Len(s) = 0 THEN ""
  ELSE LowerChar(CharAt(s, 1)) \o toLowerCase(SubSeq(s, 2, Len(s)))

IsSpace(c) == c \in {" ", "\t", "\n"}

RECURSIVE TrimStart(_)
TrimStart(s) ==
  IF Len(s) > 0 /\ IsSpace(CharAt(s, 1)) THEN TrimStart(SubSeq(s, 2, Len(s))) ELSE s

RECURSIVE TrimEnd(_)
TrimEnd(s) ==
  IF Len(s) > 0 /\ IsSpace(CharAt(s, Len(s))) THEN TrimEnd(SubSeq(s, 1, Len(s) - 1)) ELSE s

\* String.prototype.trim
Trim(s) == TrimEnd(TrimStart(s))

\* s.replace(/\/$/, '')
StripTrailingSlash(s) ==
  IF Len(s) > 0 /\ CharAt(s, Len(s)) = "/" THEN SubSeq(s, 1, Len(s) - 1) ELSE s

\* a.localeCompare(b): a primary comparison that ignores case (space before
\* letters, letters in alphabetical order), then, between strings that differ
\* in case only, lower case first.  -1, 0 or 1.
CollationOrder == " abcdefghijklmnopqrstuvwxyz"
Rank(c) == IndexOf(CollationOrder, LowerChar(c))

RECURSIVE PrimaryCompare(_, _)
PrimaryCompare(a, b) ==
  IF Len(a) = 0 /\ Len(b) = 0 THEN 0
  ELSE IF Len(a) = 0 THEN -1
  ELSE IF Len(b) = 0 THEN 1
  ELSE IF Rank(CharAt(a, 1)) < Rank(CharAt(b, 1)) THEN -1
  ELSE IF Rank(CharAt(a, 1)) > Rank(CharAt(b, 1)) THEN 1
  ELSE PrimaryCompare(SubSeq(a, 2, Len(a)), SubSeq(b, 2, Len(b)))

RECURSIVE CaseCompare(_, _)
CaseCompare(a, b) ==
  IF Len(a) = 0 \/ Len(b) = 0 THEN 0
  ELSE IF CharAt(a, 1) = CharAt(b, 1)
       THEN CaseCompare(SubSeq(a, 2, Len(a)), SubSeq(b, 2, Len(b)))
  ELSE IF IsUpper(CharAt(b, 1)) THEN -1 ELSE 1

localeCompare(a, b) ==
  IF PrimaryCompare(a, b) # 0 THEN PrimaryCompare(a, b) ELSE CaseCompare(a, b)

\* parseInt(s, 10): leading white space, then the leading decimal digits;
\* NaN when there is none.  (No sign: X-WP-TotalPages is a count.)
Digits == "0123456789"
IsDigit(c) == Includes(Digits, c)
NaN == [nan |-> TRUE, n |-> 0]
Num(k) == [nan |-> FALSE, n |-> k]

RECURSIVE DigitsValue(_, _)
DigitsValue(s, acc) ==
  IF Len(s) > 0 /\ IsDigit(CharAt(s, 1))
  THEN DigitsValue(SubSeq(s, 2, Len(s)), acc * 10 + (IndexOf(Digits, CharAt(s, 1)) - 1))
  ELSE acc

parseInt(s) ==
  LET t == TrimStart(s)
  IN IF Len(t) > 0 /\ IsDigit(CharAt(t, 1)) THEN Num(DigitsValue(t, 0)) ELSE NaN

\* The index of the first character of s that is in cs; Len(s) + 1 if none.
FirstOf(s, cs) ==
  IF \E i \in 1..Len(s) : CharAt(s, i) \in cs
  THEN CHOOSE i \in 1..Len(s) :
         CharAt(s, i) \in cs /\ \A j \in 1..(i - 1) : CharAt(s, j) \notin cs
  ELSE Len(s) + 1

\* p <= totalPages, false whenever totalPages is NaN.
LessEq(p, total) == ~total.nan /\ p <= total.n

\* ------------------------------------------------------------- junk filter
JUNK_SLUG_KEYWORDS ==
  << "sandbox", "sample", "test", "demo", "h5p", "hypothesis",
     "import", "workshop", "template", "training", "trial",
     "temp", "-dev", "devsite", "dev2" >>
JUNK_TITLE_KEYWORDS ==
  << "sandbox", "sample", "testbook", "test book", "demo book",
     "workshop", "template", "dev site", "dev 2" >>

\* Values of metadata.inCatalog in an upstream record: the booleans, a missing
\* property, and a string (truthy, but not === true).
JsTrue == "true"
JsFalse == "false"
JsStringTrue == "'true'"
StrictTrue(v) == v = JsTrue

\* (b.link || '').toLowerCase()
\*   .replace('https://', '').replace('.pressbooks.tru.ca/', '').replace('/', '')
SlugOf(link) ==
  ReplaceFirst(ReplaceFirst(ReplaceFirst(toLowerCase(OrElse(link, "")), "https://", ""),
                            ".pressbooks.tru.ca/", ""), "/", "")

\* JUNK_SLUG_KEYWORDS.some(k => slug.includes(k))
SlugHasKeyword(link) ==
  \E i \in 1..Len(JUNK_SLUG_KEYWORDS) : Includes(SlugOf(link), JUNK_SLUG_KEYWORDS[i])

\* JUNK_TITLE_KEYWORDS.some(k => title.includes(k)), title = (meta.name || '').toLowerCase()
TitleHasKeyword(name) ==
  \E i \in 1..Len(JUNK_TITLE_KEYWORDS) :
     Includes(toLowerCase(OrElse(name, "")), JUNK_TITLE_KEYWORDS[i])

\* ---------------------------------------------------------------- upstream
\* The Pressbooks network catalogue the servers page through.  The records of
\* the upstream: clean and junk slugs and titles, equal titles on different
\* pages, a title that needs trimming, a lower-case title that a code-unit
\* comparison would put last.
Catalogue ==
  << [link |-> "https://zoology.pressbooks.tru.ca/",      name |-> "Zoology",   title |-> UNDEFINED, inCatalog |-> JsFalse],
     [link |-> "https://sandbox.pressbooks.tru.ca/",      name |-> "Sandbox",   title |-> UNDEFINED, inCatalog |-> JsFalse],
     [link |-> "https://apple.pressbooks.tru.ca/",        name |-> "apple pie", title |-> UNDEFINED, inCatalog |-> JsStringTrue],
     [link |-> "https://MySandBox.pressbooks.tru.ca/zoo", name |-> "Zoology",   title |-> UNDEFINED, inCatalog |-> UNDEFINED],
     [link |-> "https://zoo.pressbooks.tru.ca",           name |-> " Zoology ", title |-> UNDEFINED, inCatalog |-> JsTrue],
     \* records without a name to show
     [link |-> "https://blank.pressbooks.tru.ca/",        name |-> "   ",       title |-> UNDEFINED, inCatalog |-> JsFalse],
     [link |-> "https://noname.pressbooks.tru.ca/",       name |-> UNDEFINED,   title |-> UNDEFINED, inCatalog |-> JsFalse],
     [link |-> "https://botany.pressbooks.tru.ca/",       name |-> "",          title |-> "Botany",  inCatalog |-> JsFalse],
     [link |-> "https://empty.pressbooks.tru.ca/",        name |-> "",          title |-> "",        inCatalog |-> JsFalse],
     \* a keyword in the name alone, in capitals; a record without a link
     [link |-> "https://chem.pressbooks.tru.ca/",         name |-> "Chem TEST Book", title |-> UNDEFINED, inCatalog |-> JsFalse],
     [link |-> UNDEFINED,                                 name |-> "Botany",    title |-> UNDEFINED, inCatalog |-> JsFalse],
     \* no name, and a title of its own that holds a keyword
     [link |-> "https://field.pressbooks.tru.ca/",        name |-> "",          title |-> "Field Sample Book", inCatalog |-> JsFalse] >>

BookIds == 1..Len(Catalogue)

\* The books whose In Catalog setting the network manager switches on.
Markable == {2}

\* Page layouts and the X-WP-TotalPages header sent with them (Null: no header).
Upstreams ==
  { [pages |-> << <<1, 2>>, <<3, 4>>, <<5>> >>, hdr |-> Some("3")],
    [pages |-> << <<>>, <<5, 3>> >>,            hdr |-> Some("2")],
    [pages |-> << <<2>> >>,                     hdr |-> Null],
    [pages |-> << <<5, 1>>, <<3>> >>,           hdr |-> Some("abc")] }

\* What one upstream fetch can come to.
Outcomes == {"ok", "http_error", "network_error"}

\* The two keyword tests and the shaping of a title, tabulated over the field
\* values that occur in the catalogue (each is computed once).
CatalogueLinks == {Catalogue[i].link : i \in 1..Len(Catalogue)}
CatalogueNames == {Catalogue[i].name : i \in 1..Len(Catalogue)}
CatalogueTitles == {Catalogue[i].title : i \in 1..Len(Catalogue)}
SlugJunk == [l \in CatalogueLinks |-> SlugHasKeyword(l)]
TitleJunk == [n \in CatalogueNames |-> TitleHasKeyword(n)]

isJunkBookIgnoringFlag(b) ==
  SlugJunk[b.link] \/ TitleJunk[b.metadata.name]

isJunkBook(b) ==
  IF StrictTrue(b.metadata.inCatalog) THEN FALSE
  ELSE IF SlugJunk[b.link] THEN TRUE
  ELSE IF TitleJunk[b.metadata.name] THEN TRUE
  ELSE FALSE

\* ------------------------------------------------------ entries and sorting
\* (meta.name || b.title || 'Untitled').trim()
EntryTitle == [n \in CatalogueNames, t \in CatalogueTitles |-> Trim(OrElse(n, OrElse(t, "Untitled")))]
\* (b.link || '').replace(/\/$/, '')
EntryLink == [l \in CatalogueLinks |-> StripTrailingSlash(OrElse(l, ""))]

\* parseBook (Nova, Companion) and the loop body of the sequential servers.
\* author, license, subject, wordCount and lastUpdated are copied from the
\* record without any decision depending on them; they are left out.
parseBook(b) ==
  [ id        |-> b.id,
    title     |-> EntryTitle[b.metadata.name, b.title],
    link      |-> EntryLink[b.link],
    inCatalog |-> StrictTrue(b.metadata.inCatalog) ]

RECURSIVE MapParse(_)
MapParse(s) == IF Len(s) = 0 THEN <<>> ELSE <<parseBook(Head(s))>> \o MapParse(Tail(s))

RECURSIVE FilterBooks(_, _)
FilterBooks(s, showAll) ==
  IF Len(s) = 0 THEN <<>>
  ELSE (IF showAll \/ ~isJunkBook(Head(s)) THEN <<Head(s)>> ELSE <<>>)
       \o FilterBooks(Tail(s), showAll)

\* a.title.localeCompare(b.title) over the titles entries can have.
EntryTitles == {EntryTitle[n, t] : n \in CatalogueNames, t \in CatalogueTitles}
TitleCompare == [a \in EntryTitles, b \in EntryTitles |-> localeCompare(a, b)]

RECURSIVE InsertSortedTiesFirst(_, _)
InsertSortedTiesFirst(s, e) ==
  IF Len(s) = 0 THEN <<e>>
  ELSE IF TitleCompare[Head(s).title, e.title] < 0
       THEN <<Head(s)>> \o InsertSortedTiesFirst(Tail(s), e)
       ELSE <<e>> \o s

\* Array.prototype.sort with (a, b) => a.title.localeCompare(b.title); the
\* sort is stable: an element goes after every element not greater than it.
RECURSIVE InsertSorted(_, _)
InsertSorted(s, e) ==
  IF Len(s) = 0 THEN <<e>>
  ELSE IF TitleCompare[Head(s).title, e.title] <= 0
       THEN <<Head(s)>> \o InsertSorted(Tail(s), e)
       ELSE <<e>> \o s

RECURSIVE SortByTitle(_)
SortByTitle(s) ==
  IF Len(s) = 0 THEN <<>>
  ELSE InsertSorted(SortByTitle(SubSeq(s, 1, Len(s) - 1)), s[Len(s)])

\* ------------------------------------------------------------------- state
VARIABLES
  variant,         \* which server is running: "parallel" or "sequential"
  now,             \* Date.now()
  booksCache,      \* let booksCache = null  (Null, or Some(list of entries))
  booksCacheTime,  \* let booksCacheTime = 0
  pages,           \* upstream: the ids on each catalogue page
  hdr,             \* upstream: X-WP-TotalPages
  inCatalog,       \* upstream: metadata.inCatalog of each book
  failures,        \* upstream: fetches that have failed so far
  nreq,            \* /api/books requests accepted so far
  req,             \* the /api/books handlers, by arrival number
  arrivals,        \* history: Date.now() at each arrival (serial runs)
  markedAt,        \* history: requests accepted before a book was marked In Catalog
  ncreq,           \* /api/toc and /api/chapter requests accepted so far
  creq,            \* the /api/toc and /api/chapter handlers, by arrival number
  nfreq,           \* /api/fetch-url requests accepted so far
  freq,            \* the /api/fetch-url handlers, by arrival number
  html,            \* htmlToPlainText: the argument of the call under way
  text,            \* htmlToPlainText: the string the chain has produced so far
  step,            \* htmlToPlainText: the replace/trim calls of the chain done
  server,          \* which server file is running: builder, nova, sylva, companion
  API_KEY,         \* process.env.ANTHROPIC_API_KEY
  proc,            \* the process: starting, listening, exited (process.exit(1)), crashed
  ngreq,           \* POST /api/generate requests accepted so far
  greq,            \* the POST /api/generate handlers, by arrival number
  junkCall         \* isJunkBook: the argument and the value of the last call

vars == << variant, now, booksCache, booksCacheTime, pages, hdr, inCatalog,
           failures, nreq, req, arrivals, markedAt, ncreq, creq, nfreq, freq, html, text, step,
           server, API_KEY, proc, ngreq, greq, junkCall >>

BOOKS_CACHE_TTL == 10 * 60 * 1000

\* Date.now() when the process starts: far from the epoch (booksCacheTime = 0
\* is older than any TTL).
StartTime == 2 * BOOKS_CACHE_TTL

\* The clock advances by half a TTL at a time: a cache is 0, TTL/2 (fresh),
\* exactly TTL (expired) or more old.
TickStep == BOOKS_CACHE_TTL \div 2

\* The record the upstream returns for a book at this moment.
RawBook(id) ==
  [ id       |-> id,
    link     |-> Catalogue[id].link,
    title    |-> Catalogue[id].title,
    metadata |-> [name |-> Catalogue[id].name, inCatalog |-> inCatalog[id]] ]

\* The JSON array of page p (an empty array past the last page).
ServePage(p) ==
  IF p \in 1..Len(pages)
  THEN [i \in 1..Len(pages[p]) |-> RawBook(pages[p][i])]
  ELSE <<>>

\* r.headers.get('X-WP-TotalPages') || '2'
HeaderOr2 == IF Truthy(hdr) THEN OrElse(Val(hdr), "2") ELSE "2"

\* r.headers.get('X-WP-TotalPages') || '1'
HeaderOr1 == IF Truthy(hdr) THEN OrElse(Val(hdr), "1") ELSE "1"

NoRequest ==
  [ pc         |-> "none",   \* none, page1, rest, seq, done
    showAll    |-> FALSE,    \* req.query.all === '1'
    sawCache   |-> FALSE,    \* history: booksCache was set on arrival
    totalPages |-> Num(1),
    page       |-> 1,        \* sequential: let page = 1
    allBooks   |-> <<>>,     \* sequential: const allBooks = []
    results    |-> <<>>,     \* page -> the records its fetch resolved with
    inflight   |-> {},       \* pages whose fetch is pending
    failed     |-> {},       \* pages whose fetch failed
    outcomes   |-> <<>>,     \* history: page -> what its fetch came to
    fetchLog   |-> <<>>,     \* history: pages requested, in order
    order      |-> <<>>,     \* history: pages answered, in order
    peak       |-> 0,        \* history: most fetches pending at once
    status     |-> 0,        \* HTTP status sent (0: none yet)
    body       |-> <<>>,     \* entries sent with a 200
    error      |-> <<>>,     \* <<page, outcome>> named by a 502
    fromCache  |-> FALSE,    \* history: answered by the cache branch
    cacheWrite |-> 0,        \* history: which write of the cache it made (0: none)
    responses  |-> 0 ]       \* history: responses sent

\* A /api/fetch-url handler.
\* The fetch-url requests the server can hold: those of a run and one more
\* beside them.
FetchSlots == MaxFetchRequests + 1

NoFetchRequest ==
  [ pc        |-> "none",      \* none, headers (await fetch), body (await r.text()), done
    url       |-> UNDEFINED,
    status    |-> 0,           \* HTTP status sent (0: none yet)
    error     |-> "",          \* the error text sent with a 4xx or 5xx
    fetched   |-> UNDEFINED,   \* the URL given to fetch, if any
    timer     |-> FALSE,       \* the abort timer is set
    waited    |-> 0,           \* history: ms since the fetch was issued
    upstream  |-> <<>>,        \* history: status and content-type received (Null: none)
    page      |-> 0,           \* history: the body read (0: none)
    result    |-> <<>>,        \* the JSON sent with a 200 (Null: none)
    responses |-> 0 ]          \* history: responses sent

\* The calls of the chain in htmlToPlainText.
LastStep == 8

\* A /api/toc or /api/chapter handler.
NoContentRequest ==
  [ pc        |-> "none",      \* none, fetching, done
    endpoint  |-> "",          \* "toc" or "chapter"
    bookUrl   |-> UNDEFINED,
    chapterId |-> UNDEFINED,
    status    |-> 0,           \* HTTP status sent (0: none yet)
    error     |-> "",          \* the error text sent with a 400 or a 502
    fetched   |-> UNDEFINED,   \* the URL given to fetch, if any
    upstream  |-> <<>>,        \* history: what the fetch came to (Null: nothing yet)
    result    |-> <<>> ]       \* the JSON sent with a 200 (Null: none)

\* A POST /api/generate handler.
NoGenerateRequest ==
  [ pc         |-> "none",     \* none, calling (await fetch), done, lost (never answered)
    body       |-> <<>>,       \* req.body (Null: none yet)
    called     |-> FALSE,      \* history: the AI upstream was called
    upstream   |-> <<>>,       \* history: what the call came to (Null: nothing yet)
    status     |-> 0,          \* HTTP status sent (0: none yet)
    structured |-> FALSE,      \* the response body is JSON
    error      |-> "" ]        \* the error property of the JSON sent with an error status

\* The server files and the shape of /api/books in each.
Servers == {"builder", "nova", "sylva", "companion"}
ShapeOf(s) == IF s \in {"nova", "companion"} THEN "parallel" ELSE "sequential"

\* The state of a server that has started with its key set and listens.
InitOver(layouts) ==
  /\ variant \in {"parallel", "sequential"}
  /\ server = (IF variant = "parallel" THEN "nova" ELSE "builder")
  /\ API_KEY = "sk-ant-key"
  /\ proc = "listening"
  /\ ngreq = 0
  /\ greq = [k \in 1..MaxGenerateRequests |-> NoGenerateRequest]
  /\ junkCall = Null
  /\ now = StartTime
  /\ booksCache = Null
  /\ booksCacheTime = 0
  /\ \E u \in layouts : pages = u.pages /\ hdr = u.hdr
  /\ inCatalog = [id \in BookIds |-> Catalogue[id].inCatalog]
  /\ failures = 0
  /\ nreq = 0
  /\ req = [r \in 1..MaxRequests |-> NoRequest]
  /\ arrivals = <<>>
  /\ markedAt = [id \in Markable |-> -1]
  /\ ncreq = 0
  /\ creq = [k \in 1..MaxContentRequests |-> NoContentRequest]
  /\ nfreq = 0
  /\ freq = [k \in 1..FetchSlots |-> NoFetchRequest]
  /\ html = ""
  /\ text = ""
  /\ step = LastStep

Init == InitOver(Upstreams)

\* ------------------------------------------------------- GET /api/books
\* The pages of results, concatenated in page order:
\* [page1books, ...remainingResults].flat()
RECURSIVE FlatPages(_, _, _)
FlatPages(results, p, last) ==
  IF p > last THEN <<>>
  ELSE (IF p \in DOMAIN results THEN results[p] ELSE <<>>) \o FlatPages(results, p + 1, last)

LastPage(results) ==
  IF DOMAIN results = {} THEN 0 ELSE CHOOSE p \in DOMAIN results : \A q \in DOMAIN results : q <= p

rawBooksOf(results) == FlatPages(results, 1, LastPage(results))

CacheIsFreshForHalfTTL(showAll) ==
  /\ ~showAll
  /\ Truthy(booksCache)
  /\ (now - booksCacheTime) < BOOKS_CACHE_TTL \div 2

CacheIsFreshAndNonEmpty(showAll) ==
  /\ ~showAll
  /\ Truthy(booksCache)
  /\ Len(Val(booksCache)) > 0
  /\ (now - booksCacheTime) < BOOKS_CACHE_TTL

CacheIsSet(showAll) == ~showAll /\ Truthy(booksCache)

\* if (!showAll && booksCache && (Date.now() - booksCacheTime) < BOOKS_CACHE_TTL)
CacheIsFresh(showAll) ==
  /\ ~showAll
  /\ Truthy(booksCache)
  /\ (now - booksCacheTime) < BOOKS_CACHE_TTL

RemainingPagesButLast(total) ==
  {p \in 2..(IF total.nan THEN 0 ELSE total.n - 1) : LessEq(p, total)}

\* for (let p = 2; p <= totalPages; p++)
RemainingPages(total) == {p \in 2..(IF total.nan THEN 0 ELSE total.n) : LessEq(p, total)}

Busy == {r \in 1..MaxRequests : req[r].pc \in {"page1", "rest", "seq"}}

\* res.json(entries)
Send200(rec, entries) ==
  [rec EXCEPT !.pc = "done", !.status = 200, !.body = entries,
              !.responses = rec.responses + 1]

Send200WithPagesSoFar(rec, p, outcome) ==
  [rec EXCEPT !.pc = "done", !.status = 200,
              !.body = SortByTitle(MapParse(FilterBooks(rawBooksOf(rec.results), rec.showAll))),
              !.responses = rec.responses + 1]

\* The failure without a catch around it: the handler ends and nothing is
\* sent.
ThrowUncaught(rec, p, outcome) ==
  [rec EXCEPT !.pc = "done", !.results = <<>>, !.allBooks = <<>>]

\* The same with the page number taken from a loop variable shared by all
\* the callbacks (var p): the number after the last page requested.
Send502NamingLoopEnd(rec, p, outcome) ==
  [rec EXCEPT !.pc = "done", !.status = 502,
              !.error = <<Len(rec.fetchLog) + 1, outcome>>,
              !.responses = rec.responses + 1,
              !.results = <<>>, !.allBooks = <<>>]

\* catch (err) { res.status(502).json(...) }: the pages gathered are dropped.
Send502(rec, p, outcome) ==
  [rec EXCEPT !.pc = "done", !.status = 502, !.error = <<p, outcome>>,
              !.responses = rec.responses + 1,
              !.results = <<>>, !.allBooks = <<>>]

\* fetch(url) for each page of ps, in the order of log.
Issue(rec, ps, log) ==
  [rec EXCEPT !.inflight = rec.inflight \cup ps,
              !.fetchLog = rec.fetchLog \o log,
              !.peak = Max(rec.peak, Cardinality(rec.inflight \cup ps))]

RECURSIVE Ascending(_, _)
Ascending(a, b) == IF a > b THEN <<>> ELSE <<a>> \o Ascending(a + 1, b)

\* Step 3 and the sort of the parallel handler: flatten, filter, shape, sort.
Aggregate(results, showAll) ==
  SortByTitle(MapParse(FilterBooks(rawBooksOf(results), showAll)))

\* The upstream lets a fetch fail.
Fails(outcome) ==
  IF outcome = "ok" THEN UNCHANGED failures
  ELSE failures < MaxFailures /\ failures' = failures + 1

\* A request arrives.  The parallel servers answer from the cache when it is
\* fresh; otherwise (and always in the sequential servers) page 1 is fetched.
Arrive(showAll) ==
  /\ proc = "listening"
  /\ nreq < MaxRequests
  /\ LET r == nreq + 1
         rec == [NoRequest EXCEPT !.showAll = showAll, !.sawCache = Truthy(booksCache)]
     IN /\ nreq' = r
        /\ req' = [req EXCEPT ![r] =
                     IF variant = "parallel" /\ CacheIsFresh(showAll)
                     THEN [Send200(rec, Val(booksCache)) EXCEPT !.fromCache = TRUE]
                     ELSE Issue([rec EXCEPT !.pc = IF variant = "parallel" THEN "page1" ELSE "seq"],
                                {1}, <<1>>)]
  /\ UNCHANGED << junkCall, server, API_KEY, proc, ngreq, greq,
                  variant, now, booksCache, booksCacheTime, pages, hdr,
                  inCatalog, failures, markedAt, ncreq, creq, nfreq, freq, html, text, step >>

\* The number of the next write of the cache.
NextCacheWrite ==
  1 + Cardinality({q \in 1..MaxRequests : req[q].cacheWrite > 0})

CompleteWithoutCaching(r, rec) ==
  /\ req' = [req EXCEPT ![r] = Send200(rec, Aggregate(rec.results, rec.showAll))]
  /\ UNCHANGED << booksCache, booksCacheTime >>

CompleteCachingAlways(r, rec) ==
  LET allBooks == Aggregate(rec.results, rec.showAll)
  IN /\ req' = [req EXCEPT ![r] =
                    [Send200(rec, allBooks) EXCEPT !.cacheWrite = NextCacheWrite]]
     /\ booksCache' = Some(allBooks) /\ booksCacheTime' = now

\* The parallel handler completes: cache the filtered list, send it.
Complete(r, rec) ==
  LET allBooks == Aggregate(rec.results, rec.showAll)
  IN /\ req' = [req EXCEPT ![r] =
                    [Send200(rec, allBooks) EXCEPT
                       !.cacheWrite = IF rec.showAll THEN 0 ELSE NextCacheWrite]]
     /\ IF ~rec.showAll
        THEN booksCache' = Some(allBooks) /\ booksCacheTime' = now
        ELSE UNCHANGED << booksCache, booksCacheTime >>

\* Parallel servers: the page-1 fetch settles.
Page1Response(r, outcome) ==
  /\ proc = "listening"
  /\ variant = "parallel"
  /\ req[r].pc = "page1"
  /\ Fails(outcome)
  /\ LET got == [req[r] EXCEPT !.inflight = {}, !.order = <<1>>,
                               !.outcomes = (1 :> outcome)]
     IN IF outcome # "ok"
        THEN /\ req' = [req EXCEPT ![r] = Send502([got EXCEPT !.failed = {1}], 1, outcome)]
             /\ UNCHANGED << booksCache, booksCacheTime >>
        ELSE LET total == parseInt(HeaderOr1)
                 rest == RemainingPages(total)
                 rec == [got EXCEPT !.totalPages = total, !.results = (1 :> ServePage(1))]
             IN IF rest = {}
                THEN Complete(r, rec)
                ELSE /\ req' = [req EXCEPT ![r] =
                                  Issue([rec EXCEPT !.pc = "rest"], rest, Ascending(2, total.n))]
                     /\ UNCHANGED << booksCache, booksCacheTime >>
  /\ UNCHANGED << junkCall, server, API_KEY, proc, ngreq, greq,
                  variant, now, pages, hdr, inCatalog, nreq, arrivals, markedAt, ncreq, creq, nfreq, freq, html, text, step >>

\* Parallel servers: the fetch of one of the pages 2..N settles while the
\* handler awaits Promise.all, which rejects with the first failure and
\* resolves with the last success.
PageResponse(r, p, outcome) ==
  /\ proc = "listening"
  /\ variant = "parallel"
  /\ req[r].pc = "rest"
  /\ p \in req[r].inflight
  /\ Fails(outcome)
  /\ LET got == [req[r] EXCEPT !.inflight = req[r].inflight \ {p},
                               !.order = req[r].order \o <<p>>,
                               !.failed = IF outcome = "ok" THEN req[r].failed
                                          ELSE req[r].failed \cup {p},
                               !.outcomes = (p :> outcome) @@ req[r].outcomes,
                               !.results = IF outcome = "ok"
                                           THEN (p :> ServePage(p)) @@ req[r].results
                                           ELSE req[r].results]
     IN IF outcome # "ok"
        THEN /\ req' = [req EXCEPT ![r] = Send502(got, p, outcome)]
             /\ UNCHANGED << booksCache, booksCacheTime >>
        ELSE IF got.inflight = {}
        THEN Complete(r, got)
        ELSE /\ req' = [req EXCEPT ![r] = got]
             /\ UNCHANGED << booksCache, booksCacheTime >>
  /\ UNCHANGED << junkCall, server, API_KEY, proc, ngreq, greq,
                  variant, now, pages, hdr, inCatalog, nreq, arrivals, markedAt, ncreq, creq, nfreq, freq, html, text, step >>

\* Sequential servers: the fetch of the loop's current page settles.
SeqResponse(r, outcome) ==
  /\ proc = "listening"
  /\ variant = "sequential"
  /\ req[r].pc = "seq"
  /\ Fails(outcome)
  /\ LET page == req[r].page
         got == [req[r] EXCEPT !.inflight = {}, !.order = req[r].order \o <<page>>,
                               !.outcomes = (page :> outcome) @@ req[r].outcomes]
     IN IF outcome # "ok"
        THEN req' = [req EXCEPT ![r] = Send502([got EXCEPT !.failed = {page}], page, outcome)]
        ELSE LET total == IF page = 1 THEN parseInt(HeaderOr1) ELSE req[r].totalPages
                 books == ServePage(page)
                 rec == [got EXCEPT !.totalPages = total,
                                    !.results = (page :> books) @@ req[r].results]
             IN IF Len(books) = 0
                THEN req' = [req EXCEPT ![r] = Send200(rec, SortByTitle(rec.allBooks))]
                ELSE LET more == [rec EXCEPT
                                    !.allBooks = rec.allBooks
                                                 \o MapParse(FilterBooks(books, rec.showAll)),
                                    !.page = page + 1]
                     IN IF LessEq(page + 1, total)
                        THEN req' = [req EXCEPT ![r] = Issue(more, {page + 1}, <<page + 1>>)]
                        ELSE req' = [req EXCEPT ![r] = Send200(more, SortByTitle(more.allBooks))]
  /\ UNCHANGED << junkCall, server, API_KEY, proc, ngreq, greq,
                  variant, now, booksCache, booksCacheTime, pages, hdr,
                  inCatalog, nreq, arrivals, markedAt, ncreq, creq, nfreq, freq, html, text, step >>

\* Time passes.
Tick ==
  /\ now < StartTime + MaxTicks * TickStep
  /\ now' = now + TickStep
  /\ UNCHANGED << junkCall, server, API_KEY, proc, ngreq, greq,
                  variant, booksCache, booksCacheTime, pages, hdr, inCatalog,
                  failures, nreq, req, arrivals, markedAt, ncreq, creq, nfreq, freq, html, text, step >>

\* Upstream: the network manager marks a book In Catalog.
MarkInCatalog(id) ==
  /\ ~StrictTrue(inCatalog[id])
  /\ inCatalog' = [inCatalog EXCEPT ![id] = JsTrue]
  /\ markedAt' = [markedAt EXCEPT ![id] = nreq]
  /\ UNCHANGED << junkCall, server, API_KEY, proc, ngreq, greq,
                  variant, now, booksCache, booksCacheTime, pages, hdr,
                  failures, nreq, req, arrivals, ncreq, creq, nfreq, freq, html, text, step >>

\* A fetch of some handler settles.
Settle ==
  \/ \E r \in 1..MaxRequests, o \in Outcomes : Page1Response(r, o)
  \/ \E r \in 1..MaxRequests : \E p \in req[r].inflight, o \in Outcomes : PageResponse(r, p, o)
  \/ \E r \in 1..MaxRequests, o \in Outcomes : SeqResponse(r, o)

\* The servers under a passing clock and an unchanging catalogue; requests
\* arrive at any time, also while others are being handled.
Next ==
  \/ \E showAll \in BOOLEAN : Arrive(showAll) /\ UNCHANGED arrivals
  \/ Settle
  \/ Tick

Spec == Init /\ [][Next]_vars

\* The same, one request at a time (a trace without overlapping requests),
\* with the arrival times remembered.
NextSerial ==
  \/ \E showAll \in BOOLEAN :
        Busy = {} /\ Arrive(showAll) /\ arrivals' = Append(arrivals, now)
  \/ Settle
  \/ Tick

SpecSerial == Init /\ [][NextSerial]_vars

\* The servers while the network manager edits the catalogue (the clock stands
\* still: every request falls within the TTL of every other).
NextLive ==
  \/ \E showAll \in BOOLEAN : Arrive(showAll) /\ UNCHANGED arrivals
  \/ Settle
  \/ \E id \in Markable : MarkInCatalog(id)

SpecLive == Init /\ [][NextLive]_vars

\* The sequential handler as a function of what the fetches come to
\* (oc: page -> outcome): the while loop from the given page on, allBooks
\* holding the entries gathered so far.
RECURSIVE listBooksSequential(_, _, _, _, _)
listBooksSequential(oc, showAll, total, page, allBooks) ==
  IF oc[page] # "ok" THEN [status |-> 502, body |-> <<>>]
  ELSE LET books == ServePage(page)
           more == allBooks \o MapParse(FilterBooks(books, showAll))
       IN IF Len(books) = 0 THEN [status |-> 200, body |-> SortByTitle(allBooks)]
          ELSE IF LessEq(page + 1, total)
               THEN listBooksSequential(oc, showAll, total, page + 1, more)
               ELSE [status |-> 200, body |-> SortByTitle(more)]

\* A sibling whose failure is answered as well, and whose success completes
\* the aggregation: a second response, and a write of the cache.
SiblingSettlesAnswered(r, p, outcome) ==
  /\ proc = "listening"
  /\ variant = "parallel"
  /\ req[r].pc = "done"
  /\ p \in req[r].inflight
  /\ LET got == [req[r] EXCEPT !.inflight = @ \ {p}, !.order = @ \o <<p>>,
                               !.outcomes = (p :> outcome) @@ @]
     IN IF outcome # "ok"
        THEN /\ req' = [req EXCEPT ![r] = Send502(got, p, outcome)]
             /\ UNCHANGED << booksCache, booksCacheTime >>
        ELSE Complete(r, got)
  /\ UNCHANGED << junkCall, server, API_KEY, proc, ngreq, greq,
                  variant, now, pages, hdr, inCatalog, failures,
                  nreq, arrivals, markedAt, ncreq, creq, nfreq, freq, html, text, step >>

\* Parallel servers: a fetch settles whose handler has already answered 502
\* for the failure of another page.  Promise.all has rejected; the fetches
\* still pending run to their end and what they come to is dropped.
SiblingSettles(r, p, outcome) ==
  /\ proc = "listening"
  /\ variant = "parallel"
  /\ req[r].pc = "done"
  /\ p \in req[r].inflight
  /\ req' = [req EXCEPT ![r] =
               [@ EXCEPT !.inflight = @ \ {p},
                         !.order = @ \o <<p>>,
                         !.failed = IF outcome = "ok" THEN @ ELSE @ \cup {p},
                         !.outcomes = (p :> outcome) @@ @]]
  /\ UNCHANGED << junkCall, server, API_KEY, proc, ngreq, greq,
                  variant, now, booksCache, booksCacheTime, pages, hdr, inCatalog, failures,
                  nreq, arrivals, markedAt, ncreq, creq, nfreq, freq, html, text, step >>

\* What a fetch of a page can come to, the upstream failing with one status
\* or another.
PageOutcomes == {"ok", "http_404", "http_503", "network_error"}

\* The servers with every fetch followed to its end, also those of a request
\* already answered (the clock stands still).
NextPages ==
  \/ \E showAll \in BOOLEAN : Arrive(showAll) /\ UNCHANGED arrivals
  \/ \E r \in 1..MaxRequests, o \in PageOutcomes : Page1Response(r, o)
  \/ \E r \in 1..MaxRequests : \E p \in req[r].inflight, o \in PageOutcomes : PageResponse(r, p, o)
  \/ \E r \in 1..MaxRequests, o \in PageOutcomes : SeqResponse(r, o)
  \/ \E r \in 1..MaxRequests : \E p \in req[r].inflight, o \in PageOutcomes : SiblingSettles(r, p, o)

SpecPages == Init /\ [][NextPages]_vars

\* The records isJunkBook is called with: every link, name and In Catalog
\* value of the catalogue, in every combination.
JunkInputs ==
  {[link |-> l, metadata |-> [name |-> n, inCatalog |-> f]] :
     l \in CatalogueLinks, n \in CatalogueNames,
     f \in {UNDEFINED, JsFalse, JsTrue, JsStringTrue}}

\* isJunkBook(b) is called and returns; b is the object it was given.
CallIsJunkBook(b) ==
  /\ junkCall' = Some([given |-> b, b |-> b, returned |-> isJunkBook(b)])
  /\ UNCHANGED << server, API_KEY, proc, ngreq, greq,
                  variant, now, booksCache, booksCacheTime, pages, hdr, inCatalog, failures,
                  nreq, req, arrivals, markedAt, ncreq, creq, nfreq, freq, html, text, step >>

NextJunk == \E b \in JunkInputs : CallIsJunkBook(b)

\* isJunkBook at work in a server that is otherwise idle.
\* One server at rest is enough: the function reads nothing but its argument.
InitJunk == Init /\ variant = "sequential" /\ hdr = Null

SpecJunk == InitJunk /\ [][NextJunk]_vars

\* An upstream whose records have no name to show: a name of spaces, no
\* name and no title, an empty name with a title, an empty name and title.
NamelessUpstream == [pages |-> << <<6, 7>>, <<8, 9, 12>> >>, hdr |-> Some("2")]

\* The servers in front of it.
SpecNameless == InitOver({NamelessUpstream}) /\ [][Next]_vars

\* ------------------------------------------------------- htmlToPlainText
\* TLA+ strings are ASCII: the six typographic characters the decoder
\* produces are stood in by ASCII characters that occur in no input.
EN_DASH == "~"
EM_DASH == "_"
LEFT_SINGLE_QUOTE == "$"
RIGHT_SINGLE_QUOTE == "^"
LEFT_DOUBLE_QUOTE == "{"
RIGHT_DOUBLE_QUOTE == "}"

\* s has k at index i.
At(s, i, k) == i >= 1 /\ i + Len(k) - 1 <= Len(s) /\ SubSeq(s, i, i + Len(k) - 1) = k
\* The same, ignoring case (the i flag); k is lower case.
AtIgnoreCase(s, i, k) ==
  /\ i >= 1 /\ i + Len(k) - 1 <= Len(s)
  /\ Len(k) > 0 => LowerChar(CharAt(s, i)) = CharAt(k, 1)
  /\ toLowerCase(SubSeq(s, i, i + Len(k) - 1)) = k

\* The index of the first occurrence of k at or after i; 0 if none.
Find(s, i, k) ==
  IF \E j \in i..Len(s) : At(s, j, k)
  THEN CHOOSE j \in i..Len(s) : At(s, j, k) /\ \A h \in i..(j - 1) : ~At(s, h, k)
  ELSE 0

FindIgnoreCase(s, i, k) ==
  IF \E j \in i..Len(s) : AtIgnoreCase(s, j, k)
  THEN CHOOSE j \in i..Len(s) :
         AtIgnoreCase(s, j, k) /\ \A h \in i..(j - 1) : ~AtIgnoreCase(s, h, k)
  ELSE 0

\* The index of the last character of a match of
\* /<name[^>]*>[\s\S]*?<\/name>/i that starts at i; 0 if there is none.
BlockEnd(s, i, name) ==
  IF ~AtIgnoreCase(s, i, "<" \o name) THEN 0
  ELSE LET gt == Find(s, i + Len(name) + 1, ">")
       IN IF gt = 0 THEN 0
          ELSE LET close == FindIgnoreCase(s, gt + 1, "</" \o name \o ">")
               IN IF close = 0 THEN 0 ELSE close + Len(name) + 2

\* .replace(/<name[^>]*>[\s\S]*?<\/name>/gi, '')
RECURSIVE RemoveBlocks(_, _, _)
RemoveBlocks(s, i, name) ==
  LET lt == Find(s, i, "<")
  IN IF lt = 0 THEN SubSeq(s, i, Len(s))
     ELSE SubSeq(s, i, lt - 1)
          \o (IF BlockEnd(s, lt, name) > 0
              THEN RemoveBlocks(s, BlockEnd(s, lt, name) + 1, name)
              ELSE "<" \o RemoveBlocks(s, lt + 1, name))

\* p|div|h[1-6]|li|blockquote|tr|br
BlockTagNames ==
  {"p", "div", "h1", "h2", "h3", "h4", "h5", "h6", "li", "blockquote", "tr", "br"}

\* The index of the last character of a match of
\* /<\/?(p|div|h[1-6]|li|blockquote|tr|br)[^>]*>/i that starts at i; 0 if none.
BlockTagEnd(s, i) ==
  IF ~At(s, i, "<") THEN 0
  ELSE LET j == IF At(s, i + 1, "/") THEN i + 2 ELSE i + 1
       IN IF \E n \in BlockTagNames : AtIgnoreCase(s, j, n) THEN Find(s, j + 1, ">") ELSE 0

\* .replace(/<\/?(p|div|h[1-6]|li|blockquote|tr|br)[^>]*>/gi, '\n')
RECURSIVE BlockTagsToNewlines(_, _)
BlockTagsToNewlines(s, i) ==
  LET lt == Find(s, i, "<")
  IN IF lt = 0 THEN SubSeq(s, i, Len(s))
     ELSE SubSeq(s, i, lt - 1)
          \o (IF BlockTagEnd(s, lt) > 0
              THEN "\n" \o BlockTagsToNewlines(s, BlockTagEnd(s, lt) + 1)
              ELSE "<" \o BlockTagsToNewlines(s, lt + 1))

\* The index of the last character of a match of /<[^>]+>/ that starts at i.
TagEnd(s, i) ==
  IF At(s, i, "<") /\ i + 1 <= Len(s) /\ ~At(s, i + 1, ">") THEN Find(s, i + 2, ">") ELSE 0

StripTagsKeepingAll(s, i) == SubSeq(s, i, Len(s))

\* .replace(/<[^>]+>/g, '')
RECURSIVE StripTags(_, _)
StripTags(s, i) ==
  LET lt == Find(s, i, "<")
  IN IF lt = 0 THEN SubSeq(s, i, Len(s))
     ELSE SubSeq(s, i, lt - 1)
          \o (IF TagEnd(s, lt) > 0
              THEN StripTags(s, TagEnd(s, lt) + 1)
              ELSE "<" \o StripTags(s, lt + 1))

\* .replace(/k/g, r) for a literal k
RECURSIVE ReplaceAll(_, _, _, _)
ReplaceAll(s, i, k, r) ==
  LET j == Find(s, i, k)
  IN IF j = 0 THEN SubSeq(s, i, Len(s))
     ELSE SubSeq(s, i, j - 1) \o r \o ReplaceAll(s, j + Len(k), k, r)

\* The entities decoded, in the order of the chain.
Entities ==
  << <<"&amp;", "&">>, <<"&lt;", "<">>, <<"&gt;", ">">>, <<"&quot;", "\"">>,
     <<"&#039;", "'">>, <<"&nbsp;", " ">>, <<"&#8211;", EN_DASH>>, <<"&#8212;", EM_DASH>>,
     <<"&#8216;", LEFT_SINGLE_QUOTE>>, <<"&#8217;", RIGHT_SINGLE_QUOTE>>,
     <<"&#8220;", LEFT_DOUBLE_QUOTE>>, <<"&#8221;", RIGHT_DOUBLE_QUOTE>> >>

\* Each replace of the chain works on the finished value of the one before.
RECURSIVE DecodeFrom(_, _)
DecodeFrom(s, n) ==
  IF n > Len(Entities) THEN s
  ELSE CHOOSE r \in {DecodeFrom(t, n + 1) :
                       t \in {ReplaceAll(s, 1, Entities[n][1], Entities[n][2])}} : TRUE

DecodeEntities(s) == DecodeFrom(s, 1)

\* The index after the run of characters of cs that starts at i.
RunEnd(s, i, cs) ==
  IF \E j \in i..Len(s) : CharAt(s, j) \notin cs
  THEN CHOOSE j \in i..Len(s) :
         CharAt(s, j) \notin cs /\ \A h \in i..(j - 1) : CharAt(s, h) \in cs
  ELSE Len(s) + 1

\* .replace(/c{min,}/g, r) for a character class cs
RECURSIVE CollapseRuns(_, _, _, _, _)
CollapseRuns(s, i, cs, min, r) ==
  LET j == FirstOf(SubSeq(s, i, Len(s)), cs) + i - 1
  IN IF j > Len(s) THEN SubSeq(s, i, Len(s))
     ELSE SubSeq(s, i, j - 1)
          \o (IF RunEnd(s, j, cs) - j >= min THEN r ELSE SubSeq(s, j, RunEnd(s, j, cs) - 1))
          \o CollapseRuns(s, RunEnd(s, j, cs), cs, min, r)

CollapseNewlinesFromFour(s) == CollapseRuns(s, 1, {"\n"}, 4, "\n\n")

\* .replace(/\n{3,}/g, '\n\n')
CollapseNewlines(s) == CollapseRuns(s, 1, {"\n"}, 3, "\n\n")
\* .replace(/[ \t]{2,}/g, ' ')
CollapseSpaces(s) == CollapseRuns(s, 1, {" ", "\t"}, 2, " ")

\* The steps of the chain, in order.
ExtractStep(n, s) ==
  CASE n = 1 -> RemoveBlocks(s, 1, "script")
    [] n = 2 -> RemoveBlocks(s, 1, "style")
    [] n = 3 -> BlockTagsToNewlines(s, 1)
    [] n = 4 -> StripTags(s, 1)
    [] n = 5 -> DecodeEntities(s)
    [] n = 6 -> CollapseNewlines(s)
    [] n = 7 -> CollapseSpaces(s)
    [] n = 8 -> Trim(s)

RECURSIVE ExtractFrom(_, _)
ExtractFrom(n, s) ==
  IF n > LastStep THEN s
  ELSE CHOOSE r \in {ExtractFrom(n + 1, t) : t \in {ExtractStep(n, s)}} : TRUE

htmlToPlainText(h) == ExtractFrom(1, h)

\* html.replace(/<[^>]+>/g, '').replace(/&amp;/g, '&').replace(/&#8211;/g, '-').trim()
stripHtml(h) ==
  Trim(ReplaceAll(ReplaceAll(StripTags(h, 1), 1, "&amp;", "&"), 1, "&#8211;", EN_DASH))

\* text.split(/\s+/).length: the empty pieces at the ends are counted too.
WordCountUnfiltered(s) ==
  Cardinality({i \in 1..Len(s) :
                 ~IsSpace(CharAt(s, i)) /\ (i = 1 \/ IsSpace(CharAt(s, i - 1)))})
  + (IF Len(s) = 0 \/ IsSpace(CharAt(s, 1)) THEN 1 ELSE 0)
  + (IF Len(s) > 0 /\ IsSpace(CharAt(s, Len(s))) THEN 1 ELSE 0)

\* text.split(/\s+/).filter(Boolean).length: the maximal runs of non-space
\* (counted by their first characters).
WordCount(s) ==
  Cardinality({i \in 1..Len(s) :
                 ~IsSpace(CharAt(s, i)) /\ (i = 1 \/ IsSpace(CharAt(s, i - 1)))})

\* ------------------------------------------------------------ new URL(s)
\* The WHATWG URL parser as far as the host check depends on it: scheme,
\* authority (credentials, host, port), host lower-cased for the special
\* schemes.  Not modelled: file:, IPv4/IPv6 literals, percent-decoding, IDNA.
Failure == [ok |-> FALSE, scheme |-> "", hostname |-> ""]
Parsed(scheme, hostname) == [ok |-> TRUE, scheme |-> scheme, hostname |-> hostname]

IsAlpha(c) == Includes(UpperLetters, c) \/ Includes(LowerLetters, c)
IsSchemeChar(c) == IsAlpha(c) \/ IsDigit(c) \/ c \in {"+", "-", "."}
ValidScheme(s) ==
  /\ Len(s) > 0
  /\ IsAlpha(CharAt(s, 1))
  /\ \A i \in 1..Len(s) : IsSchemeChar(CharAt(s, i))

SpecialSchemes == {"http", "https", "ftp", "ws", "wss"}
ForbiddenHostChars == {" ", "#", "/", "<", ">", "?", "@", "[", "\\", "]", "^", "|", "%"}


\* String.prototype.lastIndexOf for one character, 1-based; 0 when absent.
LastIndexOf(s, c) ==
  IF \E i \in 1..Len(s) : CharAt(s, i) = c
  THEN CHOOSE i \in 1..Len(s) :
         CharAt(s, i) = c /\ \A j \in (i + 1)..Len(s) : CharAt(s, j) # c
  ELSE 0

\* Special schemes: any run of / and \ after the colon is skipped.
RECURSIVE SkipSlashes(_)
SkipSlashes(s) ==
  IF Len(s) > 0 /\ CharAt(s, 1) \in {"/", "\\"} THEN SkipSlashes(SubSeq(s, 2, Len(s))) ELSE s

ParseAuthority(scheme, s, special) ==
  LET delims    == IF special THEN {"/", "\\", "?", "#"} ELSE {"/", "?", "#"}
      authority == SubSeq(s, 1, FirstOf(s, delims) - 1)
      at        == LastIndexOf(authority, "@")
      hostport  == SubSeq(authority, at + 1, Len(authority))
      colon     == IndexOf(hostport, ":")
      host      == IF colon = 0 THEN hostport ELSE SubSeq(hostport, 1, colon - 1)
      port      == IF colon = 0 THEN "" ELSE SubSeq(hostport, colon + 1, Len(hostport))
  IN IF special /\ host = "" THEN Failure
     ELSE IF \E i \in 1..Len(port) : ~IsDigit(CharAt(port, i)) THEN Failure
     ELSE IF \E i \in 1..Len(host) : CharAt(host, i) \in ForbiddenHostChars THEN Failure
     ELSE Parsed(scheme, IF special THEN toLowerCase(host) ELSE host)

\* new URL(input), with no base URL: a relative reference fails.
ParseURL(input) ==
  LET s     == Trim(input)
      colon == IndexOf(s, ":")
  IN IF colon = 0 \/ ~ValidScheme(SubSeq(s, 1, colon - 1)) THEN Failure
     ELSE LET scheme == toLowerCase(SubSeq(s, 1, colon - 1))
              rest   == SubSeq(s, colon + 1, Len(s))
          IN IF scheme \in SpecialSchemes
             THEN ParseAuthority(scheme, SkipSlashes(rest), TRUE)
             ELSE IF Len(rest) >= 2 /\ SubSeq(rest, 1, 2) = "//"
                  THEN ParseAuthority(scheme, SubSeq(rest, 3, Len(rest)), FALSE)
                  ELSE Parsed(scheme, "")

\* String.prototype.endsWith
endsWith(s, k) == Len(s) >= Len(k) /\ SubSeq(s, Len(s) - Len(k) + 1, Len(s)) = k

\* ------------------------------------------- GET /api/toc, GET /api/chapter
\* The bookUrl query values requests are made with (UNDEFINED: no parameter).
BookUrls ==
  { UNDEFINED,
    "",
    "not a url",
    "//biology.pressbooks.tru.ca",
    "https://evil.com",
    "https://pressbooks.tru.ca.evil.com",
    "https://evilpressbooks.tru.ca",
    "https://biology.pressbooks.tru.ca@evil.com",
    "https://evil.com/.pressbooks.tru.ca",
    "https://evil.com\\.pressbooks.tru.ca",
    "https://evil.com#.pressbooks.tru.ca",
    "https://pressbooks.tru.ca.",
    "mailto:x@pressbooks.tru.ca",
    "https://pressbooks.tru.ca",
    "https://biology.pressbooks.tru.ca",
    "HTTPS://Biology.PressBooks.TRU.ca/",
    "http://a.b.pressbooks.tru.ca:8080/book" }

\* The chapterId query values.
ChapterIds == {UNDEFINED, "", "7"}

\* !x for a query value.
Missing(x) == x = UNDEFINED \/ x = ""

\* new URL(bookUrl) for each of the values (each is parsed once).
ParsedUrl == [u \in BookUrls \ {UNDEFINED} |-> ParseURL(u)]

HostAllowedBySubstring(hostname) == Includes(hostname, "pressbooks.tru.ca")

HostAllowedDirectOnly(hostname) ==
  \/ hostname = "pressbooks.tru.ca"
  \/ /\ endsWith(hostname, ".pressbooks.tru.ca")
     /\ ~Includes(SubSeq(hostname, 1, Len(hostname) - Len(".pressbooks.tru.ca")), ".")

\* !(!hostname.endsWith('.pressbooks.tru.ca') && hostname !== 'pressbooks.tru.ca')
HostAllowed(hostname) ==
  ~(~endsWith(hostname, ".pressbooks.tru.ca") /\ hostname # "pressbooks.tru.ca")

Reject(rec, message) ==
  [rec EXCEPT !.pc = "done", !.status = 400, !.error = message]

\* The checks both handlers make before they fetch.
ValidateBookUrl(rec, url) ==
  IF ~ParsedUrl[rec.bookUrl].ok
  THEN Reject(rec, "bookUrl is not a valid URL.")
  ELSE IF ~HostAllowed(ParsedUrl[rec.bookUrl].hostname)
  THEN Reject(rec, "bookUrl must be a pressbooks.tru.ca subdomain.")
  ELSE [rec EXCEPT !.pc = "fetching", !.fetched = url]

\* app.get('/api/toc')
GetToc(bookUrl) ==
  /\ proc = "listening"
  /\ ncreq < MaxContentRequests
  /\ LET rec == [NoContentRequest EXCEPT !.endpoint = "toc", !.bookUrl = bookUrl]
     IN /\ ncreq' = ncreq + 1
        /\ creq' = [creq EXCEPT ![ncreq + 1] =
                      IF Missing(bookUrl)
                      THEN Reject(rec, "bookUrl query parameter is required.")
                      ELSE ValidateBookUrl(rec, bookUrl \o "/wp-json/pressbooks/v2/toc")]
  /\ UNCHANGED << junkCall, server, API_KEY, proc, ngreq, greq,
                  variant, now, booksCache, booksCacheTime, pages, hdr, inCatalog,
                  failures, nreq, req, arrivals, markedAt, nfreq, freq, html, text, step >>

\* app.get('/api/chapter')
GetChapter(bookUrl, chapterId) ==
  /\ proc = "listening"
  /\ ncreq < MaxContentRequests
  /\ LET rec == [NoContentRequest EXCEPT !.endpoint = "chapter", !.bookUrl = bookUrl,
                                         !.chapterId = chapterId]
     IN /\ ncreq' = ncreq + 1
        /\ creq' = [creq EXCEPT ![ncreq + 1] =
                      IF Missing(bookUrl) \/ Missing(chapterId)
                      THEN Reject(rec, "bookUrl and chapterId query parameters are required.")
                      ELSE ValidateBookUrl(rec, bookUrl \o "/wp-json/pressbooks/v2/chapters/"
                                                        \o chapterId)]
  /\ UNCHANGED << junkCall, server, API_KEY, proc, ngreq, greq,
                  variant, now, booksCache, booksCacheTime, pages, hdr, inCatalog,
                  failures, nreq, req, arrivals, markedAt, nfreq, freq, html, text, step >>

\* The table of contents an upstream book serves.  chapters is Null when the
\* property is not an array.  slug and link of a chapter are copied without
\* any decision depending on them; they are left out.
UpChapter(id, title, status, content, words) ==
  [id |-> id, title |-> title, status |-> status, has_post_content |-> content,
   word_count |-> words]
UpPart(id, title, chapters) == [id |-> id, title |-> title, chapters |-> chapters]

Tocs ==
  << [parts |-> Some(<< UpPart(1, "Front", Some(<< UpChapter(11, "Preface", "publish", TRUE, 120),
                                                  UpChapter(12, "Notes", "draft", TRUE, 40),
                                                  UpChapter(13, "Blank", "publish", FALSE, 0),
                                                  UpChapter(14, UNDEFINED, "publish", TRUE, 0) >>)),
                       UpPart(2, "Empty", Some(<<>>)),
                       UpPart(3, "Odd", Null),
                       UpPart(4, UNDEFINED, Some(<< UpChapter(41, "Later", "publish", TRUE, 7) >>)),
                       UpPart(5, "Drafts", Some(<< UpChapter(51, "Soon", "private", TRUE, 9),
                                                   UpChapter(52, "Never", "Publish", TRUE, 9) >>)) >>)],
    [parts |-> Null],
    [parts |-> Some(<< UpPart(6, "Only", Some(<< UpChapter(61, "Gone", "published", TRUE, 3),
                                                 UpChapter(62, "Here", "publish", TRUE, 5) >>)) >>)] >>

RECURSIVE SimplifyChaptersAnyContent(_)
SimplifyChaptersAnyContent(cs) ==
  IF Len(cs) = 0 THEN <<>>
  ELSE (IF Head(cs).status = "publish"
        THEN << [id        |-> Head(cs).id,
                 title     |-> OrElse(Head(cs).title, "Untitled Chapter"),
                 wordCount |-> Head(cs).word_count] >>
        ELSE <<>>)
       \o SimplifyChaptersAnyContent(Tail(cs))

\* p.chapters.filter(c => c.status === 'publish' && c.has_post_content).map(...)
RECURSIVE SimplifyChapters(_)
SimplifyChapters(cs) ==
  IF Len(cs) = 0 THEN <<>>
  ELSE (IF Head(cs).status = "publish" /\ Head(cs).has_post_content
        THEN << [id        |-> Head(cs).id,
                 title     |-> OrElse(Head(cs).title, "Untitled Chapter"),
                 wordCount |-> Head(cs).word_count] >>
        ELSE <<>>)
       \o SimplifyChapters(Tail(cs))

\* .filter(p => Array.isArray(p.chapters) && p.chapters.length > 0)
\* .map(p => ({ id, title: p.title || 'Untitled Part', chapters: ... }))
\* .filter(p => p.chapters.length > 0)
RECURSIVE SimplifyParts(_)
SimplifyParts(ps) ==
  IF Len(ps) = 0 THEN <<>>
  ELSE (IF /\ Truthy(Head(ps).chapters) /\ Len(Val(Head(ps).chapters)) > 0
           /\ Len(SimplifyChapters(Val(Head(ps).chapters))) > 0
        THEN << [id       |-> Head(ps).id,
                 title    |-> OrElse(Head(ps).title, "Untitled Part"),
                 chapters |-> SimplifyChapters(Val(Head(ps).chapters))] >>
        ELSE <<>>)
       \o SimplifyParts(Tail(ps))

\* (toc.parts || [])...
SimplifyToc(toc) == SimplifyParts(IF Truthy(toc.parts) THEN Val(toc.parts) ELSE <<>>)

\* The chapter documents an upstream book serves (content and title stand for
\* content.rendered and title.rendered).
ChapterDocs ==
  << [id |-> 7, content |-> "<p>Hello &amp; welcome</p>", title |-> "Intro &amp; <em>Basics</em>",
     link |-> "https://biology.pressbooks.tru.ca/chapter/intro/"],
    [id |-> 8, content |-> UNDEFINED, title |-> UNDEFINED, link |-> UNDEFINED],
    [id |-> 9, content |-> "<h1>One</h1><div>two  three</div>\n\n\n<script>four</script>&lt;5",
     title |-> " <b>T</b> ", link |-> ""] >>

\* res.json({ id, title: stripHtml(title), link, wordCount, text })
ChapterJson(doc) ==
  LET plainText == htmlToPlainText(OrElse(doc.content, ""))
  IN [ id        |-> doc.id,
       title     |-> stripHtml(OrElse(doc.title, "Untitled Chapter")),
       link      |-> OrElse(doc.link, ""),
       wordCount |-> WordCount(plainText),
       text      |-> plainText ]

\* The chapter answers, computed once for each document.
ChapterResults == [n \in 1..Len(ChapterDocs) |-> ChapterJson(ChapterDocs[n])]

\* Bodies are numbered: the n-th toc or chapter document, or a body that
\* r.json() cannot parse.
BadJson == 0

\* What the upstream can answer: nothing (the fetch rejects), a failure
\* status, or 200 with a body.
ContentStatuses == {404, 503}
ContentAnswers(endpoint) ==
  {[kind |-> "network", status |-> 0, message |-> "fetch failed", body |-> BadJson]}
  \cup {[kind |-> "response", status |-> st, message |-> "", body |-> BadJson] :
          st \in ContentStatuses}
  \cup {[kind |-> "response", status |-> 200, message |-> "", body |-> b] :
          b \in (1..Len(IF endpoint = "toc" THEN Tocs ELSE ChapterDocs)) \cup {BadJson}}

OkBelow500(status) == status < 500

\* r.ok
Ok(status) == status \in 200..299

\* The message of the error the try block throws, Null if it throws none.
ContentFailure(a) ==
  IF a.kind = "network" THEN Some(a.message)
  ELSE IF ~Ok(a.status) THEN Some("HTTP " \o ToString(a.status))
  ELSE IF a.body = BadJson THEN Some("Unexpected token < in JSON at position 0")
  ELSE Null

\* The fetch of a toc or chapter handler settles: 200, or 502 from the catch.
ContentResponse(k, a) ==
  /\ proc = "listening"
  /\ creq[k].pc = "fetching"
  /\ LET got == [creq[k] EXCEPT !.pc = "done", !.upstream = Some(a)]
     IN creq' = [creq EXCEPT ![k] =
                   IF Truthy(ContentFailure(a))
                   THEN [got EXCEPT !.status = 502,
                                    !.error = (IF got.endpoint = "toc"
                                               THEN "Could not fetch table of contents: "
                                               ELSE "Could not fetch chapter: ")
                                              \o Val(ContentFailure(a))]
                   ELSE [got EXCEPT !.status = 200,
                                    !.result = Some(IF got.endpoint = "toc"
                                                    THEN SimplifyToc(Tocs[a.body])
                                                    ELSE ChapterResults[a.body])]]
  /\ UNCHANGED << junkCall, server, API_KEY, proc, ngreq, greq,
                  variant, now, booksCache, booksCacheTime, pages, hdr, inCatalog,
                  failures, nreq, req, arrivals, markedAt, ncreq, nfreq, freq, html, text, step >>

\* The servers answering /api/toc and /api/chapter.
NextContent ==
  \/ \E u \in BookUrls : GetToc(u)
  \/ \E u \in BookUrls, c \in ChapterIds : GetChapter(u, c)
  \/ \E k \in 1..MaxContentRequests :
        \E a \in ContentAnswers(creq[k].endpoint) : ContentResponse(k, a)

SpecContent == Init /\ [][NextContent]_vars

\* ------------------------------------------- every request is answered
\* The requests of the three endpoints that fetch from Pressbooks, with every
\* fetch that was issued coming to an end (the clock stands still).
TocUrls == {"not a url", "https://biology.pressbooks.tru.ca"}
ChapterUrls == {"https://evil.com", "https://biology.pressbooks.tru.ca"}

\* A fetch of books request r settles, before or after the answer.
SettleOf(r) ==
  \/ \E o \in Outcomes : Page1Response(r, o)
  \/ \E p \in req[r].inflight, o \in Outcomes : PageResponse(r, p, o)
  \/ \E o \in Outcomes : SeqResponse(r, o)
  \/ \E p \in req[r].inflight, o \in Outcomes : SiblingSettles(r, p, o)

\* The fetch of toc or chapter request k settles.
ContentSettleOf(k) ==
  \E a \in ContentAnswers(creq[k].endpoint) : ContentResponse(k, a)

\* MaxRequests requests in all, of the three endpoints together.
NextAnswering ==
  \/ \E showAll \in BOOLEAN :
        nreq + ncreq < MaxRequests /\ Arrive(showAll) /\ UNCHANGED arrivals
  \/ \E r \in 1..MaxRequests : SettleOf(r)
  \/ \E u \in TocUrls : nreq + ncreq < MaxRequests /\ GetToc(u)
  \/ \E u \in ChapterUrls : nreq + ncreq < MaxRequests /\ GetChapter(u, "7")
  \/ \E k \in 1..MaxContentRequests : ContentSettleOf(k)

\* A step in which a pending fetch of books request r settles, and one in
\* which the fetch of content request k does: the steps of SettleOf(r) and
\* of ContentSettleOf(k), told by what they do to the pending fetches.
Settles(r) == \E p \in req[r].inflight : p \notin req'[r].inflight
ContentSettles(k) == creq[k].pc = "fetching" /\ creq'[k].pc = "done"

\* No fetch stays pending for ever: fetch() resolves or rejects, and the
\* event loop then runs the continuation of the handler that awaits it.
\* This is WF_vars(SettleOf(r)) and WF_vars(ContentSettleOf(k)) written out,
\* each action being enabled exactly while a fetch of the request is pending.
FetchesSettle ==
  /\ \A r \in 1..MaxRequests :
        []<>(req[r].inflight = {}) \/ []<><<Settles(r)>>_vars
  /\ \A k \in 1..MaxContentRequests :
        []<>(creq[k].pc # "fetching") \/ []<><<ContentSettles(k)>>_vars

SpecAnswering == Init /\ [][NextAnswering]_vars /\ FetchesSettle

\* ---------------------------------------------- htmlToPlainText at work
\* The pieces arguments are made of: a block tag with its text, an unclosed
\* tag and the bracket that closes it (or stands alone), script tags, an
\* entity that decodes to a bracket, a blank line, a space and text.
Tokens ==
  {"<p>a", "<b", ">", "&lt;", "\n\n", " ", "a", "<script>", "</script>"}

\* The concatenations of up to n tokens.
RECURSIVE Concatenations(_)
Concatenations(n) ==
  IF n = 0 THEN {""}
  ELSE Concatenations(n - 1) \cup {s \o t : s \in Concatenations(n - 1), t \in Tokens}

HtmlInputs == Concatenations(MaxTokens)

\* htmlToPlainText(h) is called (once in a run).
CallExtract(h) ==
  /\ step = LastStep /\ html = "" /\ text = ""
  /\ html' = h /\ text' = h /\ step' = 0
  /\ UNCHANGED << junkCall, server, API_KEY, proc, ngreq, greq,
                  variant, now, booksCache, booksCacheTime, pages, hdr, inCatalog,
                  failures, nreq, req, arrivals, markedAt, ncreq, creq, nfreq, freq >>

\* The next call of the chain returns.
Extract ==
  /\ step < LastStep
  /\ text' = ExtractStep(step + 1, text)
  /\ step' = step + 1
  /\ UNCHANGED << junkCall, server, API_KEY, proc, ngreq, greq,
                  variant, now, booksCache, booksCacheTime, pages, hdr, inCatalog,
                  failures, nreq, req, arrivals, markedAt, ncreq, creq, nfreq, freq, html >>

NextExtract ==
  \/ \E h \in HtmlInputs : CallExtract(h)
  \/ Extract

\* One server process and a call of its extractor.
InitExtract == Init /\ variant = "sequential" /\ hdr = Null

SpecExtract == InitExtract /\ [][NextExtract]_vars

\* ---------------------------------------------------- GET /api/fetch-url
FETCH_URL_TIMEOUT_MS == 12000

\* /^172\.(1[6-9]|2\d|3[01])\./ with the second octet from 15 up
Blocked172From15(h) ==
  /\ At(h, 1, "172.") /\ Len(h) >= 7 /\ CharAt(h, 7) = "."
  /\ \/ CharAt(h, 5) = "1" /\ CharAt(h, 6) \in {"5", "6", "7", "8", "9"}
     \/ CharAt(h, 5) = "2" /\ IsDigit(CharAt(h, 6))
     \/ CharAt(h, 5) = "3" /\ CharAt(h, 6) \in {"0", "1"}

\* /^172\.(1[6-9]|2\d|3[01])\./
Blocked172(h) ==
  /\ At(h, 1, "172.") /\ Len(h) >= 7 /\ CharAt(h, 7) = "."
  /\ \/ CharAt(h, 5) = "1" /\ CharAt(h, 6) \in {"6", "7", "8", "9"}
     \/ CharAt(h, 5) = "2" /\ IsDigit(CharAt(h, 6))
     \/ CharAt(h, 5) = "3" /\ CharAt(h, 6) \in {"0", "1"}

\* FETCH_URL_BLOCKLIST.some(re => re.test(hostname))
OnBlocklist(h) ==
  \/ AtIgnoreCase(h, 1, "localhost")
  \/ At(h, 1, "127.")
  \/ At(h, 1, "10.")
  \/ At(h, 1, "192.168.")
  \/ Blocked172(h)

\* The url query values requests are made with (UNDEFINED: no parameter).
\* The dotted quads are in the form the URL parser gives back unchanged.
FetchUrls ==
  { UNDEFINED,
    "",
    "not a url",
    "//example.org/page",
    "ftp://localhost/",
    "mailto:admin@10.0.0.5",
    "gopher://127.0.0.1/",
    "http://127.0.0.1/x",
    "http://10.0.0.5/",
    "HTTP://LocalHost:3000/",
    "https://localhost.example.org/",
    "http://u@192.168.1.1/",
    "http://172.16.0.1/",
    "http://172.20.0.1/",
    "http://172.31.9.9/",
    "http://172.15.0.1/",
    "http://172.32.0.1/",
    "https://example.org/page" }

\* new URL(url) for each of the values (each is parsed once).
ParsedFetchUrl == [u \in FetchUrls \ {UNDEFINED} |-> ParseURL(u)]

RejectFetch(rec, message) ==
  [rec EXCEPT !.pc = "done", !.status = 400, !.error = message, !.responses = 1]

\* The checks with the host check before the scheme check.
ValidateFetchUrlHostFirst(rec) ==
  IF Missing(rec.url) THEN RejectFetch(rec, "url query parameter is required.")
  ELSE IF ~ParsedFetchUrl[rec.url].ok THEN RejectFetch(rec, "Invalid URL.")
  ELSE IF OnBlocklist(ParsedFetchUrl[rec.url].hostname)
  THEN RejectFetch(rec, "That host is not allowed.")
  ELSE IF ParsedFetchUrl[rec.url].scheme \notin {"http", "https"}
  THEN RejectFetch(rec, "Only http and https URLs are supported.")
  ELSE [rec EXCEPT !.pc = "headers", !.fetched = rec.url, !.timer = TRUE]

\* The handler up to its await of fetch: the four checks, then the timer is
\* set and the fetch issued.
ValidateFetchUrl(rec) ==
  IF Missing(rec.url) THEN RejectFetch(rec, "url query parameter is required.")
  ELSE IF ~ParsedFetchUrl[rec.url].ok THEN RejectFetch(rec, "Invalid URL.")
  ELSE IF ParsedFetchUrl[rec.url].scheme \notin {"http", "https"}
  THEN RejectFetch(rec, "Only http and https URLs are supported.")
  ELSE IF OnBlocklist(ParsedFetchUrl[rec.url].hostname)
  THEN RejectFetch(rec, "That host is not allowed.")
  ELSE [rec EXCEPT !.pc = "headers", !.fetched = rec.url, !.timer = TRUE]

\* app.get('/api/fetch-url'), for at most so many requests.
FetchUrlUpTo(url, most) ==
  /\ proc = "listening"
  /\ nfreq < most
  /\ nfreq' = nfreq + 1
  /\ freq' = [freq EXCEPT ![nfreq + 1] = ValidateFetchUrl([NoFetchRequest EXCEPT !.url = url])]
  /\ UNCHANGED << junkCall, server, API_KEY, proc, ngreq, greq,
                  variant, now, booksCache, booksCacheTime, pages, hdr, inCatalog,
                  failures, nreq, req, arrivals, markedAt, ncreq, creq, html, text, step >>

FetchUrl(url) == FetchUrlUpTo(url, MaxFetchRequests)

\* Time is followed in half timeouts.
FetchTickMs == FETCH_URL_TIMEOUT_MS \div 2

\* Half a timeout passes for request k with nothing arriving.  While the
\* timer is set no time passes beyond its expiry before its callback runs.
FetchTick(k) ==
  /\ proc = "listening"
  /\ \/ freq[k].pc = "headers" /\ freq[k].waited < FETCH_URL_TIMEOUT_MS
     \/ freq[k].pc = "body" /\ freq[k].waited < MaxFetchTicks * FetchTickMs
  /\ freq' = [freq EXCEPT ![k].waited = @ + FetchTickMs]
  /\ UNCHANGED << junkCall, server, API_KEY, proc, ngreq, greq,
                  variant, now, booksCache, booksCacheTime, pages, hdr, inCatalog,
                  failures, nreq, req, arrivals, markedAt, ncreq, creq, nfreq, html, text, step >>

\* The timer expires where the server has one AbortController for all its
\* requests: the abort rejects every fetch that is waiting for its headers.
FetchAbortShared(k) ==
  /\ proc = "listening"
  /\ freq[k].pc = "headers" /\ freq[k].timer
  /\ freq[k].waited >= FETCH_URL_TIMEOUT_MS
  /\ freq' = [j \in DOMAIN freq |->
                IF freq[j].pc = "headers"
                THEN [freq[j] EXCEPT !.pc = "done", !.timer = FALSE, !.status = 504,
                        !.error = "Request timed out - the URL took too long to respond.",
                        !.responses = @ + 1]
                ELSE freq[j]]
  /\ UNCHANGED << junkCall, server, API_KEY, proc, ngreq, greq,
                  variant, now, booksCache, booksCacheTime, pages, hdr, inCatalog,
                  failures, nreq, req, arrivals, markedAt, ncreq, creq, nfreq, html, text, step >>

\* The timer expires: controller.abort() rejects the pending fetch with an
\* AbortError and the catch block answers 504 (the dash of its message is
\* written in ASCII).
FetchAbort(k) ==
  /\ proc = "listening"
  /\ freq[k].pc = "headers" /\ freq[k].timer
  /\ freq[k].waited >= FETCH_URL_TIMEOUT_MS
  /\ freq' = [freq EXCEPT ![k] =
                [@ EXCEPT !.pc = "done", !.timer = FALSE, !.status = 504,
                          !.error = "Request timed out - the URL took too long to respond.",
                          !.responses = @ + 1]]
  /\ UNCHANGED << junkCall, server, API_KEY, proc, ngreq, greq,
                  variant, now, booksCache, booksCacheTime, pages, hdr, inCatalog,
                  failures, nreq, req, arrivals, markedAt, ncreq, creq, nfreq, html, text, step >>

\* The catch block for an error that is not an AbortError.
FetchFailed(rec, message) ==
  [rec EXCEPT !.pc = "done", !.timer = FALSE, !.status = 502,
              !.error = "Could not fetch URL: " \o message, !.responses = @ + 1]

\* fetch rejects (DNS, connection refused, ...) before the timer expires.
FetchNetworkError(k) ==
  /\ proc = "listening"
  /\ freq[k].pc = "headers" /\ freq[k].waited < FETCH_URL_TIMEOUT_MS
  /\ freq' = [freq EXCEPT ![k] = FetchFailed(@, "fetch failed")]
  /\ UNCHANGED << junkCall, server, API_KEY, proc, ngreq, greq,
                  variant, now, booksCache, booksCacheTime, pages, hdr, inCatalog,
                  failures, nreq, req, arrivals, markedAt, ncreq, creq, nfreq, html, text, step >>

\* What the remote server sends first: a status and a content-type header
\* ("": no such header).
FetchStatuses == {200, 404, 503}
ContentTypes ==
  {"text/html; charset=utf-8", "text/plain", "application/xhtml+xml",
   "application/json; charset=utf-8", "TEXT/HTML", ""}
FetchAnswers ==
  {[status |-> 200, contentType |-> c] : c \in ContentTypes}
    \cup {[status |-> 404, contentType |-> "text/html; charset=utf-8"],
          [status |-> 503, contentType |-> ""]}

\* The content-type check with the case of the header ignored.
SupportedIgnoringCase(contentType) ==
  \/ Includes(toLowerCase(contentType), "text/html")
  \/ Includes(toLowerCase(contentType), "text/plain")
  \/ Includes(toLowerCase(contentType), "application/xhtml")

\* contentType.includes('text/html') || ... ('text/plain') || ... ('application/xhtml')
Supported(contentType) ==
  \/ Includes(contentType, "text/html")
  \/ Includes(contentType, "text/plain")
  \/ Includes(contentType, "application/xhtml")

\* contentType.split(';')[0]
BeforeSemicolon(s) == SubSeq(s, 1, FirstOf(s, {";"}) - 1)

\* fetch resolves with the response headers before the timer expires: the
\* timer is cleared, then the status and the content type are checked and
\* the body read begins.
FetchHeaders(k, a) ==
  /\ proc = "listening"
  /\ freq[k].pc = "headers" /\ freq[k].waited < FETCH_URL_TIMEOUT_MS
  /\ freq' = [freq EXCEPT ![k] =
                LET rec == [@ EXCEPT !.timer = FALSE, !.upstream = Some(a)]
                IN IF ~Ok(a.status)
                   THEN FetchFailed(rec, "Remote server returned HTTP " \o ToString(a.status))
                   ELSE IF ~Supported(a.contentType)
                   THEN [rec EXCEPT !.pc = "done", !.status = 415,
                                    !.error = "Unsupported content type: "
                                              \o BeforeSemicolon(a.contentType),
                                    !.responses = @ + 1]
                   ELSE [rec EXCEPT !.pc = "body"]]
  /\ UNCHANGED << junkCall, server, API_KEY, proc, ngreq, greq,
                  variant, now, booksCache, booksCacheTime, pages, hdr, inCatalog,
                  failures, nreq, req, arrivals, markedAt, ncreq, creq, nfreq, html, text, step >>

\* The bodies the remote server sends.
Pages ==
  << "<html><head><title> My Page </title></head><body><p>A readable page.</p></body></html>",
     "Plain words, more than twenty  characters.",
     "<p>too short</p>",
     "<TITLE lang=en></TITLE><script>var hidden = 'a long text in a script';</script>tiny",
     "<title>a<b>b</title><p>12345678901234567</p>",
     "<h1>1234567890123456789</h1>" >>

\* html.match(/<title[^>]*>([^<]*)<\/title>/i): the first group of the first
\* match, or Null.
TitleMatchAt(s, i) ==
  LET gt == Find(s, i + 6, ">")
      lt == IF gt = 0 THEN 0 ELSE Find(s, gt + 1, "<")
  IN IF AtIgnoreCase(s, i, "<title") /\ gt > 0 /\ lt > 0 /\ AtIgnoreCase(s, lt, "</title>")
     THEN Some(SubSeq(s, gt + 1, lt - 1))
     ELSE Null

TitleMatch(s) ==
  IF \E i \in 1..Len(s) : Truthy(TitleMatchAt(s, i))
  THEN TitleMatchAt(s, CHOOSE i \in 1..Len(s) :
                          /\ Truthy(TitleMatchAt(s, i))
                          /\ \A j \in 1..(i - 1) : ~Truthy(TitleMatchAt(s, j)))
  ELSE Null

\* text.length < 20, with 20 itself counted as too short
TooShortAtTwenty(t) == Len(t) <= 20

\* text.length < 20
TooShort(t) == Len(t) < 20

\* The title match and the text of each body (each is computed once).
PageTitle == [n \in 1..Len(Pages) |-> TitleMatch(Pages[n])]
PageText == [n \in 1..Len(Pages) |-> htmlToPlainText(Pages[n])]

\* r.text() resolves: title, text, and the answer 422 or 200.
FetchBody(k, n) ==
  /\ proc = "listening"
  /\ freq[k].pc = "body"
  /\ freq' = [freq EXCEPT ![k] =
                LET title == IF Truthy(PageTitle[n]) THEN Trim(Val(PageTitle[n]))
                             ELSE ParsedFetchUrl[@.url].hostname
                    rec   == [@ EXCEPT !.pc = "done", !.page = n, !.responses = @ + 1]
                IN IF TooShort(PageText[n])
                   THEN [rec EXCEPT !.status = 422,
                                    !.error = "No readable text found at that URL."]
                   ELSE [rec EXCEPT !.status = 200,
                                    !.result = Some([title     |-> title,
                                                     text      |-> PageText[n],
                                                     wordCount |-> WordCount(PageText[n])])]]
  /\ UNCHANGED << junkCall, server, API_KEY, proc, ngreq, greq,
                  variant, now, booksCache, booksCacheTime, pages, hdr, inCatalog,
                  failures, nreq, req, arrivals, markedAt, ncreq, creq, nfreq, html, text, step >>

\* r.text() rejects: the connection broke while the body was read.
FetchBodyError(k) ==
  /\ proc = "listening"
  /\ freq[k].pc = "body"
  /\ freq' = [freq EXCEPT ![k] = FetchFailed(@, "terminated")]
  /\ UNCHANGED << junkCall, server, API_KEY, proc, ngreq, greq,
                  variant, now, booksCache, booksCacheTime, pages, hdr, inCatalog,
                  failures, nreq, req, arrivals, markedAt, ncreq, creq, nfreq, html, text, step >>

NextFetch ==
  \/ \E u \in FetchUrls : FetchUrl(u)
  \/ \E k \in 1..MaxFetchRequests : FetchTick(k)
  \/ \E k \in 1..MaxFetchRequests : FetchAbort(k)
  \/ \E k \in 1..MaxFetchRequests : FetchNetworkError(k)
  \/ \E k \in 1..MaxFetchRequests : \E a \in FetchAnswers : FetchHeaders(k, a)
  \/ \E k \in 1..MaxFetchRequests : \E n \in 1..Len(Pages) : FetchBody(k, n)
  \/ \E k \in 1..MaxFetchRequests : FetchBodyError(k)

\* One server process with the /api/fetch-url route.
InitFetch == Init /\ variant = "sequential" /\ hdr = Null

SpecFetch == InitFetch /\ [][NextFetch]_vars

\* The routes side by side: fetch-url requests that overlap, one of them a
\* slow page, and a request of /api/toc beside them.
AbortUrls == {"ftp://localhost/", "https://example.org/page"}
AbortAnswers == {a \in FetchAnswers : a.contentType \in {"text/html; charset=utf-8", ""}}
AbortPages == {1, 5}

NextAbort ==
  \/ \E u \in AbortUrls : FetchUrlUpTo(u, FetchSlots)
  \/ \E k \in 1..FetchSlots : FetchTick(k)
  \/ \E k \in 1..FetchSlots : FetchAbort(k)
  \/ \E k \in 1..FetchSlots : FetchNetworkError(k)
  \/ \E k \in 1..FetchSlots : \E a \in AbortAnswers : FetchHeaders(k, a)
  \/ \E k \in 1..FetchSlots : \E n \in AbortPages : FetchBody(k, n)
  \/ \E k \in 1..FetchSlots : FetchBodyError(k)
  \/ ncreq = 0 /\ GetToc("https://biology.pressbooks.tru.ca")
  \/ \E k \in 1..MaxContentRequests :
        \E a \in ContentAnswers(creq[k].endpoint) : ContentResponse(k, a)

SpecAbort == InitFetch /\ [][NextAbort]_vars

\* ------------------------------------------------- startup, POST /api/generate
\* if (!API_KEY) with the test left out
KeyMissingNever(key) == FALSE

\* !API_KEY
KeyMissing(key) == key = UNDEFINED \/ key = ""

\* The module body runs: without a key process.exit(1) ends the process
\* before the routes are registered and app.listen is reached.
Start ==
  /\ proc = "starting"
  /\ proc' = IF KeyMissing(API_KEY) THEN "exited" ELSE "listening"
  /\ UNCHANGED << junkCall, server, API_KEY, ngreq, greq,
                  variant, now, booksCache, booksCacheTime, pages, hdr, inCatalog, failures,
                  nreq, req, arrivals, markedAt, ncreq, creq, nfreq, freq, html, text, step >>

\* The prompt and messages properties of a request body.  A string prompt is
\* known by its length, the only thing the handlers look at; messages is
\* absent, a string, or an array of a number of elements.
Prompts ==
  {[kind |-> "absent", length |-> 0], [kind |-> "number", length |-> 0]}
    \cup {[kind |-> "string", length |-> n] : n \in {0, 1, 50000, 50001, 60000, 60001}}
MessageValues ==
  {[kind |-> "absent", length |-> 0], [kind |-> "string", length |-> 2],
   [kind |-> "array", length |-> 0], [kind |-> "array", length |-> 1]}
Bodies == {[prompt |-> p, messages |-> m] : p \in Prompts, m \in MessageValues}

\* prompt && typeof prompt === 'string'
IsPromptString(p) == p.kind = "string" /\ p.length > 0
\* !messages || !Array.isArray(messages) || messages.length === 0
NoMessages(m) == m.kind # "array" \/ m.length = 0

\* The servers that take { messages } as well as { prompt }.
TakesMessages(s) == s \in {"builder", "sylva"}
\* The longest prompt each server forwards.
MaxPrompt(s) == IF s = "companion" THEN 60000 ELSE 50000

\* The 400 answer of the handler to this body (Null: the body goes upstream).
Rejection(s, b) ==
  IF IsPromptString(b.prompt)
  THEN (IF b.prompt.length > MaxPrompt(s)
        THEN Some(CASE s = "builder" -> "Prompt exceeds maximum length. Shorten your OER content."
                    [] s = "nova" -> "Prompt exceeds maximum length. Shorten your OER content."
                    [] s = "sylva" -> "Prompt exceeds maximum length."
                    [] s = "companion" -> "Prompt exceeds maximum length. Use a shorter passage or chapter.")
        ELSE Null)
  ELSE IF TakesMessages(s)
  THEN (IF NoMessages(b.messages)
        THEN Some("Request body must contain a messages array or a prompt string.")
        ELSE Null)
  ELSE Some("Request body must contain a \"prompt\" string.")

\* app.post('/api/generate') up to its await of fetch.
Generate(b) ==
  /\ proc = "listening"
  /\ ngreq < MaxGenerateRequests
  /\ ngreq' = ngreq + 1
  /\ greq' = [greq EXCEPT ![ngreq + 1] =
                LET rec == [NoGenerateRequest EXCEPT !.body = Some(b)]
                IN IF Truthy(Rejection(server, b))
                   THEN [rec EXCEPT !.pc = "done", !.status = 400, !.structured = TRUE,
                                    !.error = Val(Rejection(server, b))]
                   ELSE [rec EXCEPT !.pc = "calling", !.called = TRUE]]
  /\ UNCHANGED << junkCall, server, API_KEY, proc,
                  variant, now, booksCache, booksCacheTime, pages, hdr, inCatalog, failures,
                  nreq, req, arrivals, markedAt, ncreq, creq, nfreq, freq, html, text, step >>

\* What the call of the AI upstream can come to: fetch rejects, or a response
\* with a status and a body that is JSON (with or without error.message) or
\* is not JSON (the page of a gateway).
AiAnswers ==
  { [kind |-> "network",  status |-> 0,   json |-> FALSE, message |-> UNDEFINED],
    [kind |-> "response", status |-> 200, json |-> TRUE,  message |-> UNDEFINED],
    [kind |-> "response", status |-> 401, json |-> TRUE,  message |-> "invalid x-api-key"],
    [kind |-> "response", status |-> 529, json |-> TRUE,  message |-> UNDEFINED],
    [kind |-> "response", status |-> 502, json |-> FALSE, message |-> UNDEFINED],
    [kind |-> "response", status |-> 200, json |-> FALSE, message |-> UNDEFINED] }

\* What becomes of a rejection of the handler's promise that no catch block
\* takes: Node ends the process on the unhandled rejection (Express 4), or
\* the router hands the error to the default error handler, which answers
\* 500 with an HTML page (Express 5).
Uncaught == {"exit", "html500"}

GenerateAnswer(rec, status, structured, error) ==
  [rec EXCEPT !.pc = "done", !.status = status, !.structured = structured, !.error = error]

\* The server whose one try block holds the fetch and the read of the body.
CaughtAs500InSylva(s) == s = "sylva"

\* The call settles: the rest of the handler.
GenerateResponse(k, a, how) ==
  /\ proc = "listening"
  /\ greq[k].pc = "calling"
  /\ LET rec == [greq[k] EXCEPT !.upstream = Some(a)]
         failure == IF a.kind = "network" THEN "fetch failed"
                    ELSE "Unexpected token < in JSON at position 0"
     IN IF a.kind = "network" \/ ~a.json
        THEN IF CaughtAs500InSylva(server)
             THEN /\ greq' = [greq EXCEPT ![k] = GenerateAnswer(rec, 500, TRUE, failure)]
                  /\ proc' = proc
             ELSE IF a.kind = "network"
             THEN /\ greq' = [greq EXCEPT ![k] =
                               GenerateAnswer(rec, 502, TRUE,
                                              "Could not reach Claude API: " \o failure)]
                  /\ proc' = proc
             ELSE IF how = "exit"
             THEN /\ greq' = [greq EXCEPT ![k] = [rec EXCEPT !.pc = "lost"]]
                  /\ proc' = "crashed"
             ELSE /\ greq' = [greq EXCEPT ![k] = GenerateAnswer(rec, 500, FALSE, "")]
                  /\ proc' = proc
        ELSE /\ greq' = [greq EXCEPT ![k] =
                          IF ~Ok(a.status)
                          THEN GenerateAnswer(rec, a.status, TRUE,
                                              OrElse(a.message, "Claude API returned HTTP "
                                                                \o ToString(a.status)))
                          ELSE GenerateAnswer(rec, 200, TRUE, "")]
             /\ proc' = proc
  /\ UNCHANGED << junkCall, server, API_KEY, ngreq,
                  variant, now, booksCache, booksCacheTime, pages, hdr, inCatalog, failures,
                  nreq, req, arrivals, markedAt, ncreq, creq, nfreq, freq, html, text, step >>

\* A process about to start: any of the server files, the key set or not.
InitProcess ==
  /\ server \in Servers
  /\ variant = ShapeOf(server)
  /\ API_KEY \in {UNDEFINED, "", "sk-ant-key"}
  /\ proc = "starting"
  /\ now = StartTime
  /\ booksCache = Null
  /\ booksCacheTime = 0
  /\ \E u \in Upstreams : u.hdr = Some("3") /\ pages = u.pages /\ hdr = u.hdr
  /\ inCatalog = [id \in BookIds |-> Catalogue[id].inCatalog]
  /\ failures = 0
  /\ nreq = 0
  /\ req = [r \in 1..MaxRequests |-> NoRequest]
  /\ arrivals = <<>>
  /\ markedAt = [id \in Markable |-> -1]
  /\ ncreq = 0
  /\ creq = [k \in 1..MaxContentRequests |-> NoContentRequest]
  /\ nfreq = 0
  /\ freq = [k \in 1..FetchSlots |-> NoFetchRequest]
  /\ html = ""
  /\ text = ""
  /\ step = LastStep
  /\ ngreq = 0
  /\ greq = [k \in 1..MaxGenerateRequests |-> NoGenerateRequest]
  /\ junkCall = Null

NextGenerate ==
  \/ Start
  \/ \E b \in Bodies : Generate(b)
  \/ \E k \in 1..MaxGenerateRequests : \E a \in AiAnswers, how \in Uncaught :
        GenerateResponse(k, a, how)

\* The start of a process and its /api/generate route.
SpecGenerate == InitProcess /\ [][NextGenerate]_vars

\* ------------------------------------------------------------ a whole server
\* The servers with an /api/fetch-url route.
HasFetchUrl(s) == s \in {"builder", "sylva"}

\* No request of the content routes, of /api/fetch-url or of /api/generate
\* has arrived yet.
NoOtherRequest == ncreq + nfreq + ngreq = 0

ServerBookUrls == {UNDEFINED, "https://evil.com", "https://biology.pressbooks.tru.ca"}
ServerFetchUrls == {"ftp://localhost/", "https://example.org/page"}
ServerBodies ==
  {b \in Bodies : /\ b.prompt.kind \in {"absent", "string"}
                  /\ b.prompt.length \in {0, 1, 60001}
                  /\ b.messages.kind = "absent"}

\* One process from its start: catalogue requests one after the other and,
\* at any time, one request of one of the other routes.
NextServer ==
  \/ Start
  \/ \E showAll \in BOOLEAN : Busy = {} /\ Arrive(showAll) /\ UNCHANGED arrivals
  \/ Settle
  \/ \E u \in ServerBookUrls : NoOtherRequest /\ GetToc(u)
  \/ \E u \in ServerBookUrls, c \in {UNDEFINED, "7"} : NoOtherRequest /\ GetChapter(u, c)
  \/ \E k \in 1..MaxContentRequests :
        \E a \in ContentAnswers(creq[k].endpoint) : ContentResponse(k, a)
  \/ \E u \in ServerFetchUrls : NoOtherRequest /\ HasFetchUrl(server) /\ FetchUrl(u)
  \/ \E k \in 1..MaxFetchRequests : FetchTick(k)
  \/ \E k \in 1..MaxFetchRequests : FetchAbort(k)
  \/ \E k \in 1..MaxFetchRequests : FetchNetworkError(k)
  \/ \E k \in 1..MaxFetchRequests : \E a \in FetchAnswers : FetchHeaders(k, a)
  \/ \E k \in 1..MaxFetchRequests : \E n \in 1..Len(Pages) : FetchBody(k, n)
  \/ \E k \in 1..MaxFetchRequests : FetchBodyError(k)
  \/ \E b \in ServerBodies : NoOtherRequest /\ Generate(b)
  \/ \E k \in 1..MaxGenerateRequests : \E a \in AiAnswers, how \in Uncaught :
        GenerateResponse(k, a, how)

SpecServer == InitProcess /\ [][NextServer]_vars

\* ================================================================= claims
TenMinutes == 10 * 60 * 1000

Requests == 1..MaxRequests
Ids(entries) == {entries[i].id : i \in 1..Len(entries)}
Arriving(r) == req[r].pc = "none" /\ req'[r].pc # "none"
Caching == variant = "parallel"

\* C1: in the caching servers a listBooks(false) request that finds a cache
\* younger than 10 minutes is answered 200 with exactly the cached entries, and
\* no upstream fetch is issued for it, then or later.
C1_FreshCacheServed ==
  /\ [][\A r \in Requests :
          (/\ Caching /\ Arriving(r) /\ ~req'[r].showAll
           /\ Truthy(booksCache) /\ now - booksCacheTime < TenMinutes)
          => (/\ req'[r].pc = "done" /\ req'[r].status = 200
              /\ req'[r].body = Val(booksCache)
              /\ req'[r].fetchLog = <<>> /\ req'[r].inflight = {})]_vars
  /\ [](\A r \in Requests : req[r].fromCache =>
          req[r].fetchLog = <<>> /\ req[r].inflight = {} /\ req[r].status = 200)

C1_Witness ==
  \E r \in Requests :
     /\ Caching /\ req[r].fromCache /\ req[r].status = 200
     /\ Len(req[r].body) > 0 /\ req[r].body = Val(booksCache)
     /\ now - booksCacheTime = TickStep

PageOneFetches(r) ==
  Cardinality({i \in 1..Len(req[r].fetchLog) : req[r].fetchLog[i] = 1})

\* Two listBooks(false) calls, a before b, within the TTL of each other and
\* with no listBooks(true) call between them.
CloseFilteredCalls(a, b) ==
  /\ a < b /\ b <= nreq
  /\ ~req[a].showAll /\ ~req[b].showAll
  /\ arrivals[b] - arrivals[a] < TenMinutes
  /\ \A c \in (a + 1)..(b - 1) : ~req[c].showAll

\* C2 as stated: in a trace without overlapping requests, two listBooks(false)
\* calls within the TTL of each other, with no listBooks(true) between them,
\* issue at most one page-1 fetch between them, whatever the first call's outcome.
C2_AtMostOnePageOneFetch ==
  \A a, b \in Requests :
     CloseFilteredCalls(a, b) => PageOneFetches(a) + PageOneFetches(b) <= 1

\* C2 (amended): the same in the caching servers when the first call was
\* answered 200; a first call that aggregated is followed by a cache hit.
C2_AtMostOnePageOneFetchAfterSuccess ==
  \A a, b \in Requests :
     (Caching /\ CloseFilteredCalls(a, b) /\ req[a].status = 200)
     => /\ PageOneFetches(a) + PageOneFetches(b) <= 1
        /\ ~req[a].fromCache => req[b].fromCache /\ req[b].body = req[a].body

C2_Witness ==
  \E a, b \in Requests :
     /\ Caching /\ CloseFilteredCalls(a, b)
     /\ req[a].status = 200 /\ PageOneFetches(a) = 1
     /\ req[b].fromCache /\ arrivals[b] - arrivals[a] = TickStep
     /\ booksCacheTime > arrivals[a]

\* C3: listBooks(true) always starts an upstream aggregation, also when a
\* fresh cache exists; its 200 result has one entry for every record of every
\* fetched page, junk included; no step of it changes the cached entries or
\* the capture timestamp.
C3_ShowAllBypasses ==
  /\ [][\A r \in Requests :
          /\ (Arriving(r) /\ req'[r].showAll)
             => req'[r].fetchLog = <<1>> /\ req'[r].inflight = {1} /\ req'[r].status = 0
          /\ (req'[r] # req[r] /\ req'[r].showAll)
             => booksCache' = booksCache /\ booksCacheTime' = booksCacheTime]_vars
  /\ [](\A r \in Requests :
          (req[r].showAll /\ req[r].status = 200)
          => /\ ~req[r].fromCache
             /\ Len(req[r].body) = Len(rawBooksOf(req[r].results))
             /\ Ids(req[r].body) = Ids(rawBooksOf(req[r].results)))

C3_Witness ==
  \E r \in Requests :
     /\ Caching /\ req[r].showAll /\ req[r].sawCache /\ req[r].status = 200
     /\ now = StartTime /\ Truthy(booksCache)
     /\ \E i \in 1..Len(req[r].body) : isJunkBook(RawBook(req[r].body[i].id))
     /\ Len(req[r].body) > Len(Val(booksCache))

\* C4 as stated: the cache counts as fresh iff it is younger than the TTL and
\* its entry list is non-empty (a cached empty list is fetched again).
C4_FreshIffYoungAndNonEmpty ==
  [][\A r \in Requests :
       (Caching /\ Arriving(r) /\ ~req'[r].showAll)
       => (req'[r].fromCache <=>
             /\ Truthy(booksCache)
             /\ now - booksCacheTime < TenMinutes
             /\ Len(Val(booksCache)) > 0)]_vars

\* C4 (amended): the cache counts as fresh iff it has been written and is
\* younger than the TTL; a cached empty list is served like any other.
C4_FreshIffWrittenAndYoung ==
  [][\A r \in Requests :
       (Caching /\ Arriving(r) /\ ~req'[r].showAll)
       => (req'[r].fromCache <=>
             /\ Truthy(booksCache)
             /\ now - booksCacheTime < TenMinutes)]_vars

C4_Witness ==
  \E r \in Requests :
     /\ Caching /\ req[r].fromCache /\ req[r].status = 200
     /\ req[r].body = <<>> /\ booksCache = Some(<<>>)

NoDuplicates(log) == \A i, j \in 1..Len(log) : i # j => log[i] # log[j]

\* C5: once a page fetch of an aggregation fails (HTTP status or transport),
\* the request is answered 502 with no list; a 200 is sent only when no fetch
\* failed and every requested page arrived; no page is requested twice, and in
\* the sequential servers nothing is requested after the failed page.
C5_FailedPageFailsAll ==
  \A r \in Requests :
     /\ req[r].failed # {}
        => /\ req[r].pc = "done" /\ req[r].status = 502 /\ req[r].body = <<>>
           /\ req[r].error[1] \in req[r].failed
           /\ req[r].responses = 1
           /\ variant = "sequential"
              => req[r].fetchLog[Len(req[r].fetchLog)] \in req[r].failed
     /\ (req[r].status = 200 /\ ~req[r].fromCache)
        => /\ req[r].failed = {}
           /\ \A i \in 1..Len(req[r].fetchLog) : req[r].fetchLog[i] \in DOMAIN req[r].results
     /\ NoDuplicates(req[r].fetchLog)

C5_Witness ==
  \E r \in Requests :
     /\ req[r].status = 502 /\ Len(req[r].order) >= 2
     /\ req[r].failed = {req[r].order[Len(req[r].order)]}
     /\ req[r].error[2] = "http_error"

\* The number of pages the upstream declares (1 when the header is absent or
\* is not a number).
DeclaredPages ==
  LET total == parseInt(HeaderOr1) IN IF total.nan THEN 1 ELSE total.n

Aggregated(r) == req[r].pc # "none" /\ ~req[r].fromCache

\* C6 as stated: an aggregation over an upstream declaring N pages issues
\* exactly N fetches, page 1 first, the N-1 others all pending together, and
\* answers only after all have completed or one has failed.
C6_ExactlyNFetchesConcurrently ==
  \A r \in Requests :
     (Aggregated(r) /\ req[r].status # 0)
     => /\ Len(req[r].fetchLog) = DeclaredPages
        /\ req[r].fetchLog[1] = 1
        /\ DeclaredPages > 1 => req[r].peak = DeclaredPages - 1
        /\ req[r].inflight = {} \/ req[r].failed # {}

\* C6 (amended): in the servers that fetch in parallel, an aggregation whose
\* page-1 fetch succeeded issues exactly N fetches for the declared N: page 1
\* alone first, pages 2..N only once the page-1 response is in, all N-1 pending
\* together; the answer is sent only after all completed or one failed.
C6_ExactlyNFetchesAfterPageOne ==
  \A r \in Requests :
     (Caching /\ Aggregated(r))
     => /\ req[r].pc = "page1"
           => req[r].fetchLog = <<1>> /\ req[r].inflight = {1} /\ req[r].order = <<>>
        /\ (req[r].pc # "page1" /\ 1 \notin req[r].failed)
           => /\ req[r].fetchLog = Ascending(1, DeclaredPages)
              /\ req[r].order[1] = 1
              /\ req[r].order = <<1>> /\ DeclaredPages > 1
                 => req[r].pc = "rest" /\ req[r].inflight = 2..DeclaredPages
              /\ req[r].peak = Max(1, DeclaredPages - 1)
        /\ 1 \in req[r].failed => req[r].fetchLog = <<1>>
        /\ req[r].status # 0 => req[r].inflight = {} \/ req[r].failed # {}
        /\ req[r].status = 0 => req[r].inflight # {} /\ req[r].failed = {}

C6_Witness ==
  \E r \in Requests :
     /\ Caching /\ req[r].pc = "rest" /\ req[r].order = <<1>>
     /\ req[r].inflight = {2, 3} /\ req[r].peak = 2
     /\ req[r].fetchLog = <<1, 2, 3>>

\* The position of a book in the order of discovery: pages in page order,
\* each page in the order the upstream sent it.
Discovery(r, id) ==
  LET raw == rawBooksOf(req[r].results)
  IN CHOOSE i \in 1..Len(raw) : raw[i].id = id

\* C7: every 200 answer is sorted by title ascending, whatever the order in
\* which the page fetches completed, and entries with equal titles are in
\* discovery order (page number, then position in the page).
C7_SortedStable ==
  \A r \in Requests :
     req[r].status = 200
     => \A i, j \in 1..Len(req[r].body) :
           i < j => /\ TitleCompare[req[r].body[i].title, req[r].body[j].title] <= 0
                    /\ (~req[r].fromCache
                        /\ TitleCompare[req[r].body[i].title, req[r].body[j].title] = 0)
                       => Discovery(r, req[r].body[i].id) < Discovery(r, req[r].body[j].id)

C7_Witness ==
  \E r \in Requests :
     /\ req[r].status = 200 /\ req[r].order = <<1, 3, 2>> /\ req[r].showAll
     /\ Len(req[r].body) = 5
     /\ req[r].body[1].title = "apple pie"
     /\ req[r].body[3].title = req[r].body[5].title
     /\ req[r].body[3].id = 1 /\ req[r].body[5].id = 5

Flags == {JsTrue, JsFalse, JsStringTrue, UNDEFINED}
SlugHasSandbox == [l \in CatalogueLinks |-> Includes(SlugOf(l), "sandbox")]
Record(l, n, f) == [id |-> 0, link |-> l, title |-> UNDEFINED,
                    metadata |-> [name |-> n, inCatalog |-> f]]

\* C8: a record whose flag is true is never junk, whatever its title and
\* link; a record whose flag is false or absent and whose slug contains
\* "sandbox" is junk; a flagged record of a fetched page is in every filtered
\* 200 answer computed from that page.
C8_FlagOverridesKeywords ==
  /\ \A l \in CatalogueLinks, n \in CatalogueNames :
        /\ ~isJunkBook(Record(l, n, JsTrue))
        /\ SlugHasSandbox[l]
           => isJunkBook(Record(l, n, JsFalse)) /\ isJunkBook(Record(l, n, UNDEFINED))
  /\ \A r \in Requests :
        (req[r].status = 200 /\ ~req[r].showAll /\ ~req[r].fromCache)
        => \A p \in DOMAIN req[r].results :
              \A i \in 1..Len(req[r].results[p]) :
                 req[r].results[p][i].metadata.inCatalog = JsTrue
                 => req[r].results[p][i].id \in Ids(req[r].body)

C8_Witness ==
  \E r \in Requests :
     /\ req[r].status = 200 /\ ~req[r].showAll /\ ~req[r].fromCache
     /\ inCatalog[2] = JsTrue /\ SlugHasSandbox[Catalogue[2].link]
     /\ 2 \in Ids(req[r].body)
     /\ \E i \in 1..Len(req[r].body) : req[r].body[i].id = 2 /\ req[r].body[i].inCatalog

OnPages(id) == \E p \in 1..Len(pages) : \E i \in 1..Len(pages[p]) : pages[p][i] = id

\* C9: the flag is checked live: once the upstream has marked a book In
\* Catalog, every filtered request accepted after that and answered 200 has
\* the book in its answer.
C9_FlagCheckedLive ==
  \A r \in Requests : \A id \in Markable :
     (/\ markedAt[id] >= 0 /\ r > markedAt[id] /\ OnPages(id)
      /\ req[r].status = 200 /\ ~req[r].showAll)
     => id \in Ids(req[r].body)

ContentRequests == 1..MaxContentRequests

\* C10: a toc or chapter request whose bookUrl is missing (or, for a chapter,
\* whose chapterId is missing), does not parse as a URL, or has a hostname
\* that is neither pressbooks.tru.ca nor ends with .pressbooks.tru.ca, is
\* answered 400 and no upstream fetch is ever issued for it.
C10_BadBookUrlRejected ==
  \A k \in ContentRequests :
     LET q == creq[k]
         bad == \/ Missing(q.bookUrl)
                \/ q.endpoint = "chapter" /\ Missing(q.chapterId)
                \/ ~ParsedUrl[q.bookUrl].ok
                \/ /\ ParsedUrl[q.bookUrl].hostname # "pressbooks.tru.ca"
                   /\ ~endsWith(ParsedUrl[q.bookUrl].hostname, ".pressbooks.tru.ca")
     IN /\ (q.pc # "none" /\ bad)
           => q.pc = "done" /\ q.status = 400 /\ q.fetched = UNDEFINED
        /\ (q.pc # "none" /\ q.bookUrl \in {"https://evil.com", "https://pressbooks.tru.ca.evil.com"})
           => q.status = 400 /\ q.fetched = UNDEFINED

C10_Witness ==
  \E k \in ContentRequests :
     /\ creq[k].endpoint = "chapter" /\ creq[k].chapterId = "7"
     /\ creq[k].bookUrl = "https://pressbooks.tru.ca.evil.com"
     /\ ParsedUrl[creq[k].bookUrl].ok
     /\ ParsedUrl[creq[k].bookUrl].hostname = "pressbooks.tru.ca.evil.com"
     /\ creq[k].status = 400 /\ creq[k].fetched = UNDEFINED

TrustedBase == "pressbooks.tru.ca"

\* The labels of a host below the trusted base domain ("" for the base itself
\* and for hosts outside it).
BelowBase(hostname) ==
  IF endsWith(hostname, "." \o TrustedBase)
  THEN SubSeq(hostname, 1, Len(hostname) - Len(TrustedBase) - 1)
  ELSE ""

Fetching(q) == q.pc # "none" /\ q.fetched # UNDEFINED

\* C11 as stated: a toc or chapter request reaches the network only when the
\* host of its bookUrl is the trusted base domain or a direct (single-label)
\* subdomain of it.
C11_DirectSubdomainsOnly ==
  \A k \in ContentRequests :
     Fetching(creq[k])
     => \/ ParsedUrl[creq[k].bookUrl].hostname = TrustedBase
        \/ /\ BelowBase(ParsedUrl[creq[k].bookUrl].hostname) # ""
           /\ ~Includes(BelowBase(ParsedUrl[creq[k].bookUrl].hostname), ".")

\* C11 (amended): a toc or chapter request with its parameters present
\* reaches the network exactly when its bookUrl parses and its host is the
\* trusted base domain or ends with "." and the base domain, at any depth.
C11_AnySubdomainAccepted ==
  \A k \in ContentRequests :
     LET q == creq[k]
     IN (/\ q.pc # "none" /\ ~Missing(q.bookUrl)
         /\ q.endpoint = "chapter" => ~Missing(q.chapterId))
        => (Fetching(q) <=>
              /\ ParsedUrl[q.bookUrl].ok
              /\ \/ ParsedUrl[q.bookUrl].hostname = TrustedBase
                 \/ endsWith(ParsedUrl[q.bookUrl].hostname, "." \o TrustedBase))

C11_Witness ==
  \E k \in ContentRequests :
     /\ creq[k].pc = "fetching"
     /\ ParsedUrl[creq[k].bookUrl].hostname = "a.b.pressbooks.tru.ca"
     /\ creq[k].fetched = "http://a.b.pressbooks.tru.ca:8080/book/wp-json/pressbooks/v2/toc"

Returned == step = LastStep /\ text = htmlToPlainText(html)

\* C18 as stated: for every raw HTML input the output of htmlToPlainText
\* contains neither '<' nor '>'.
C18_NoAngleBrackets ==
  Returned => ~Includes(text, "<") /\ ~Includes(text, ">")

\* Every '<' of s opens a tag closed by a later '>' with at least one
\* character between, and no '>' or '<' occurs anywhere else.
RECURSIVE TagsOnly(_, _, _, _)
TagsOnly(s, i, inTag, n) ==
  IF i > Len(s) THEN ~inTag
  ELSE IF CharAt(s, i) = "<" THEN ~inTag /\ TagsOnly(s, i + 1, TRUE, 0)
  ELSE IF CharAt(s, i) = ">" THEN inTag /\ n >= 1 /\ TagsOnly(s, i + 1, FALSE, 0)
  ELSE TagsOnly(s, i + 1, inTag, n + 1)

\* C18 (amended): the output has neither '<' nor '>' when the input has no
\* '&' and its brackets only delimit tags; and once the tags are stripped
\* (before entities are decoded) no '<' is followed by a later '>' other than
\* directly, as "<>".
C18_NoAngleBracketsFromTags ==
  /\ (Returned /\ ~Includes(html, "&") /\ TagsOnly(html, 1, FALSE, 0))
     => ~Includes(text, "<") /\ ~Includes(text, ">")
  /\ step = 4
     => \A i \in 1..Len(text) :
           CharAt(text, i) = "<" => \A j \in (i + 2)..Len(text) : CharAt(text, j) # ">"

C18_Witness ==
  /\ Returned /\ html = "<p>a<b>" /\ TagsOnly(html, 1, FALSE, 0) /\ text = "a"

\* C19: for every raw HTML input the output of htmlToPlainText has no run of
\* three or more newlines; the steps after the newline collapse (space
\* collapse, trim) never bring newlines together.
C19_NoThreeNewlines ==
  /\ step >= 6 => ~Includes(text, "\n\n\n")
  /\ Returned => ~Includes(text, "\n\n\n")

C19_Witness ==
  /\ Returned /\ html = "a\n\n<p>a" /\ text = "a\n\na"

\* C12: a toc or chapter request that passed validation and whose upstream
\* answers with a non-success status, or whose fetch fails in the network, is
\* answered 502 with a message that carries the status or the transport
\* error, never 200.
C12_UpstreamFailureIs502 ==
  \A k \in ContentRequests :
     LET q == creq[k]
     IN /\ (Truthy(q.upstream) /\ Val(q.upstream).kind = "network")
           => /\ q.status = 502 /\ q.result = Null
              /\ endsWith(q.error, ": " \o Val(q.upstream).message)
        /\ (Truthy(q.upstream) /\ Val(q.upstream).kind = "response"
            /\ Val(q.upstream).status \notin 200..299)
           => /\ q.status = 502 /\ q.result = Null
              /\ endsWith(q.error, ": HTTP " \o ToString(Val(q.upstream).status))
        /\ q.status = 200 => Truthy(q.upstream) /\ Val(q.upstream).status = 200

C12_Witness ==
  \E k \in ContentRequests :
     /\ creq[k].status = 502 /\ creq[k].endpoint = "chapter"
     /\ Val(creq[k].upstream).status = 404
     /\ creq[k].error = "Could not fetch chapter: HTTP 404"

\* The toc answers: the parts sent and the parts the upstream served.
TocAnswered(k) ==
  creq[k].endpoint = "toc" /\ creq[k].status = 200 /\ Truthy(creq[k].result)
Sent(k) == Val(creq[k].result)
Served(k) ==
  LET toc == Tocs[Val(creq[k].upstream).body]
  IN IF Truthy(toc.parts) THEN Val(toc.parts) ELSE <<>>

\* The index in seq of the element with this id.
PosIn(seq, id) == CHOOSE i \in 1..Len(seq) : seq[i].id = id
HasId(seq, id) == \E i \in 1..Len(seq) : seq[i].id = id
InOrder(sent, served) ==
  /\ \A i \in 1..Len(sent) : HasId(served, sent[i].id)
  /\ \A i, j \in 1..Len(sent) : i < j => PosIn(served, sent[i].id) < PosIn(served, sent[j].id)

\* C13: in every toc answer each part has at least one chapter, each chapter
\* comes from an upstream chapter of that part whose status is exactly
\* "publish" and which has content, every such upstream chapter is in the
\* answer, and parts and chapters are in the upstream order.
C13_TocFiltered ==
  \A k \in ContentRequests :
     TocAnswered(k)
     => /\ InOrder(Sent(k), Served(k))
        /\ \A i \in 1..Len(Sent(k)) :
              LET part == Sent(k)[i]
                  up   == Served(k)[PosIn(Served(k), part.id)]
              IN /\ Len(part.chapters) >= 1
                 /\ Truthy(up.chapters)
                 /\ InOrder(part.chapters, Val(up.chapters))
                 /\ \A j \in 1..Len(part.chapters) :
                       LET c == Val(up.chapters)[PosIn(Val(up.chapters), part.chapters[j].id)]
                       IN c.status = "publish" /\ c.has_post_content
        /\ \A p \in 1..Len(Served(k)) :
              Truthy(Served(k)[p].chapters)
              => \A c \in 1..Len(Val(Served(k)[p].chapters)) :
                    LET ch == Val(Served(k)[p].chapters)[c]
                    IN (ch.status = "publish" /\ ch.has_post_content)
                       => /\ HasId(Sent(k), Served(k)[p].id)
                          /\ HasId(Sent(k)[PosIn(Sent(k), Served(k)[p].id)].chapters, ch.id)

C13_Witness ==
  \E k \in ContentRequests :
     /\ TocAnswered(k) /\ Len(Served(k)) = 5
     /\ Len(Sent(k)) = 2
     /\ Sent(k)[1].id = 1 /\ Len(Sent(k)[1].chapters) = 2
     /\ Sent(k)[1].chapters[1].id = 11 /\ Sent(k)[1].chapters[2].id = 14
     /\ Sent(k)[2].id = 4 /\ Sent(k)[2].title = "Untitled Part"

ChapterAnswered(k) ==
  creq[k].endpoint = "chapter" /\ creq[k].status = 200 /\ Truthy(creq[k].result)
ServedDoc(k) == ChapterDocs[Val(creq[k].upstream).body]

\* The non-empty pieces of s between runs of white space, counted by their
\* last characters.
NonEmptyPieces(s) ==
  Cardinality({i \in 1..Len(s) :
                 ~IsSpace(CharAt(s, i)) /\ (i = Len(s) \/ IsSpace(CharAt(s, i + 1)))})

\* C20: a chapter answer has the text htmlToPlainText gives for the upstream
\* rendered body and the number of non-empty pieces of that text between
\* white space as word count ("<p>Hello &amp; welcome</p>": "Hello & welcome",
\* 3); an absent body gives "" and 0, an absent title "Untitled Chapter".
C20_ChapterTextAndCount ==
  \A k \in ContentRequests :
     ChapterAnswered(k)
     => LET doc == ServedDoc(k)
            out == Val(creq[k].result)
        IN /\ doc.content # UNDEFINED => out.text = htmlToPlainText(doc.content)
           /\ out.wordCount = NonEmptyPieces(out.text)
           /\ doc.content = "<p>Hello &amp; welcome</p>"
              => out.text = "Hello & welcome" /\ out.wordCount = 3
           /\ doc.content = UNDEFINED => out.text = "" /\ out.wordCount = 0
           /\ doc.title = UNDEFINED => out.title = "Untitled Chapter"

C20_Witness ==
  \E k \in ContentRequests :
     /\ ChapterAnswered(k)
     /\ ServedDoc(k).content = "<p>Hello &amp; welcome</p>"
     /\ Val(creq[k].result).text = "Hello & welcome"
     /\ Val(creq[k].result).wordCount = 3
     /\ Val(creq[k].result).title = "Intro & Basics"

\* The /api/fetch-url requests accepted so far.
FetchRequests == {k \in 1..MaxFetchRequests : freq[k].pc # "none"}
Answered(k) == freq[k].pc = "done"
Rejected(k, message) ==
  Answered(k) /\ freq[k].status = 400 /\ freq[k].error = message /\ freq[k].fetched = UNDEFINED

\* C14: the checks are made in the order url present, URL parses, scheme is
\* http or https, host not on the blocklist; the first one that fails gives
\* the 400 answer, and a fetch is issued only when all four pass.
C14_ChecksInOrder ==
  \A k \in FetchRequests :
     LET u == freq[k].url
     IN IF u = UNDEFINED \/ u = "" THEN Rejected(k, "url query parameter is required.")
        ELSE IF ~ParseURL(u).ok THEN Rejected(k, "Invalid URL.")
        ELSE IF ParseURL(u).scheme \notin {"http", "https"}
        THEN Rejected(k, "Only http and https URLs are supported.")
        ELSE IF OnBlocklist(ParseURL(u).hostname) THEN Rejected(k, "That host is not allowed.")
        ELSE freq[k].fetched = u /\ freq[k].status # 400

\* A URL that fails the scheme check and would fail the host check too.
C14_Witness ==
  \E k \in FetchRequests :
     /\ freq[k].url = "ftp://localhost/"
     /\ Rejected(k, "Only http and https URLs are supported.")

\* The hostname begins with prefix.
BeginsWith(h, prefix) == Len(h) >= Len(prefix) /\ SubSeq(h, 1, Len(prefix)) = prefix
\* The private prefixes 172.16. to 172.31.
Private172 == {"172." \o ToString(n) \o "." : n \in 16..31}

\* C15: an http or https URL whose hostname begins with localhost (in any
\* case), 127., 10., 192.168. or 172.N. with 16 <= N <= 31 is rejected with
\* 'That host is not allowed.'; one that begins with 172.15. or 172.32. is
\* not rejected.
C15_PrivateHostsBlocked ==
  \A k \in FetchRequests :
     LET u == freq[k].url
         h == ParseURL(u).hostname
     IN (u # UNDEFINED /\ ParseURL(u).ok /\ ParseURL(u).scheme \in {"http", "https"})
        => /\ ( \/ BeginsWith(toLowerCase(h), "localhost")
                \/ \E p \in {"127.", "10.", "192.168."} \cup Private172 : BeginsWith(h, p) )
              => Rejected(k, "That host is not allowed.")
           /\ (BeginsWith(h, "172.15.") \/ BeginsWith(h, "172.32."))
              => freq[k].fetched = u /\ freq[k].status # 400

\* C15 for the URLs of every scheme: each URL whose hostname begins with one
\* of the prefixes is rejected with 'That host is not allowed.'.
C15_AnySchemePrivateHostsBlocked ==
  \A k \in FetchRequests :
     LET u == freq[k].url
         h == ParseURL(u).hostname
     IN ( /\ u # UNDEFINED /\ ParseURL(u).ok
          /\ \/ BeginsWith(toLowerCase(h), "localhost")
             \/ \E p \in {"127.", "10.", "192.168."} \cup Private172 : BeginsWith(h, p) )
        => Rejected(k, "That host is not allowed.")

C15_Witness ==
  /\ \E k \in FetchRequests :
        freq[k].url = "http://172.31.9.9/" /\ Rejected(k, "That host is not allowed.")

\* The answers decided after the fetch returned.
HeadersSeen(k) == Answered(k) /\ Truthy(freq[k].upstream)
NoneOf(contentType) ==
  /\ ~Includes(contentType, "text/html")
  /\ ~Includes(contentType, "text/plain")
  /\ ~Includes(contentType, "application/xhtml")

\* C17: once the fetch has returned, a non-success status gives 502;
\* otherwise a content type with none of text/html, text/plain,
\* application/xhtml gives 415; otherwise, the body read, a text shorter
\* than 20 characters gives 422; otherwise 200 with title, text and word
\* count; and one answer is sent.
C17_OutcomeOrder ==
  \A k \in FetchRequests :
     HeadersSeen(k)
     => LET a == Val(freq[k].upstream)
        IN /\ freq[k].responses = 1
           /\ IF a.status \notin 200..299 THEN freq[k].status = 502 /\ freq[k].page = 0
              ELSE IF NoneOf(a.contentType) THEN freq[k].status = 415 /\ freq[k].page = 0
              ELSE freq[k].page # 0
                   => IF Len(htmlToPlainText(Pages[freq[k].page])) < 20
                      THEN freq[k].status = 422 /\ freq[k].result = Null
                      ELSE /\ freq[k].status = 200
                           /\ Val(freq[k].result).text = htmlToPlainText(Pages[freq[k].page])
                           /\ Val(freq[k].result).wordCount
                                = NonEmptyPieces(Val(freq[k].result).text)
                           /\ Val(freq[k].result).title \in STRING

\* A text of exactly 20 characters is answered 200, with the host as title.
C17_Witness ==
  \E k \in FetchRequests :
     /\ HeadersSeen(k) /\ freq[k].status = 200
     /\ Len(Val(freq[k].result).text) = 20
     /\ Val(freq[k].result).title = "example.org"
     /\ Val(freq[k].result).wordCount = 2

\* C16: a request whose fetch has gone on for the 12 seconds is cancelled
\* and answered 504: no request is still waiting for the remote server after
\* more than 12 seconds, in the wait for the headers or in the body read,
\* and none is answered after more than 12 seconds with anything but 504.
C16_TimeoutBoundsTheFetch ==
  \A k \in FetchRequests :
     (freq[k].fetched # UNDEFINED /\ freq[k].waited > FETCH_URL_TIMEOUT_MS)
     => Answered(k) /\ freq[k].status = 504

\* What does hold: the wait for the headers ends at the timeout with 504.
C16_HeaderWaitBounded ==
  \A k \in FetchRequests :
     /\ freq[k].pc = "headers" => freq[k].timer /\ freq[k].waited <= FETCH_URL_TIMEOUT_MS
     /\ (Answered(k) /\ freq[k].fetched # UNDEFINED /\ freq[k].upstream = Null
           /\ freq[k].waited >= FETCH_URL_TIMEOUT_MS)
        => freq[k].status = 504
     /\ freq[k].pc = "body" => ~freq[k].timer

C16_Witness ==
  \E k \in FetchRequests :
     /\ freq[k].pc = "body" /\ ~freq[k].timer
     /\ freq[k].waited > FETCH_URL_TIMEOUT_MS

\* C21: a process started without the credential of the AI upstream exits
\* before it listens: in no reachable state is the credential absent while
\* the process listens or a request of any route has been taken up.
C21_NoServiceWithoutCredential ==
  API_KEY \in {UNDEFINED, ""} =>
    /\ proc \in {"starting", "exited"}
    /\ nreq + ncreq + nfreq + ngreq = 0

\* A process started without the credential has exited.
C21_Witness == API_KEY \in {UNDEFINED, ""} /\ proc = "exited"

\* What the AI upstream call of generate request k came to counts as a
\* failure: fetch rejected, a status that is not 2xx, or a body that is not
\* JSON.
GenerateFailed(k) ==
  /\ Truthy(greq[k].upstream)
  /\ LET a == Val(greq[k].upstream)
     IN a.kind = "network" \/ ~a.json \/ a.status \notin 200..299

UnparseableBody(k) ==
  /\ Truthy(greq[k].upstream)
  /\ Val(greq[k].upstream).kind = "response"
  /\ ~Val(greq[k].upstream).json

\* Request k was answered with an error status and a JSON body { error }.
JsonError(k) ==
  /\ greq[k].pc = "done"
  /\ greq[k].status >= 400
  /\ greq[k].structured
  /\ greq[k].error # ""

\* The failures of the other routes are answered.
OtherFailuresAnswered ==
  /\ \A r \in 1..MaxRequests :
        req[r].failed # {} => req[r].pc = "done" /\ req[r].status = 502 /\ req[r].error # <<>>
  /\ \A k \in 1..MaxContentRequests :
        (Truthy(creq[k].upstream) /\ Truthy(ContentFailure(Val(creq[k].upstream))))
          => creq[k].pc = "done" /\ creq[k].status = 502 /\ creq[k].error # ""
  /\ \A k \in 1..MaxFetchRequests :
        (freq[k].pc = "done" /\ freq[k].result = Null) => freq[k].status >= 400 /\ freq[k].error # ""

\* C22 as stated: on every route every failure (a status that is not a
\* success, a transport error, an upstream body that cannot be parsed) is
\* answered with a JSON error, no request stays unanswered and the process
\* never ends after its start.
C22_EveryFailureAnsweredAsJson ==
  /\ proc \in {"starting", "exited", "listening"}
  /\ OtherFailuresAnswered
  /\ \A k \in 1..MaxGenerateRequests : GenerateFailed(k) => JsonError(k)

\* C22, what holds: the failures of the catalogue, content and fetch-url
\* routes are answered with a JSON error, and so is every failure of
\* /api/generate but the upstream body that is not JSON in builder, nova and
\* companion; that one alone ends the process or is answered without JSON.
C22_FailuresAnsweredButUnparseableBody ==
  /\ OtherFailuresAnswered
  /\ \A k \in 1..MaxGenerateRequests :
        (GenerateFailed(k) /\ (server = "sylva" \/ ~UnparseableBody(k))) => JsonError(k)
  /\ proc = "crashed" =>
        /\ server # "sylva"
        /\ \E k \in 1..MaxGenerateRequests : UnparseableBody(k) /\ greq[k].pc = "lost"

\* The AI upstream answered /api/generate with a body that is not JSON, the
\* process ended on the rejection and the request has no answer.
C22_Witness ==
  \E k \in 1..MaxGenerateRequests :
    /\ UnparseableBody(k)
    /\ greq[k].pc = "lost"
    /\ proc = "crashed"

\* The body of generate request k.
BodyOf(k) == Val(greq[k].body)

\* The body of request k has no prompt the server can use (not a string, or
\* the empty string) and, where the server takes messages too, no messages
\* either (absent, not an array, or an empty array).
NoUsableInput(k) ==
  /\ ~(BodyOf(k).prompt.kind = "string" /\ BodyOf(k).prompt.length >= 1)
  /\ server \in {"builder", "sylva"} =>
        ~(BodyOf(k).messages.kind = "array" /\ BodyOf(k).messages.length >= 1)

\* The prompt of request k is a string longer than the server forwards.
Oversized(k) ==
  /\ BodyOf(k).prompt.kind = "string"
  /\ BodyOf(k).prompt.length > (IF server = "companion" THEN 60000 ELSE 50000)

\* Request k is answered 400 and the AI upstream was not called for it.
Answered400WithoutCall(k) ==
  /\ greq[k].pc = "done"
  /\ greq[k].status = 400
  /\ ~greq[k].called
  /\ greq[k].upstream = Null

TransportFailure(k) ==
  Truthy(greq[k].upstream) /\ Val(greq[k].upstream).kind = "network"

\* C23 as stated: in every server /api/generate answers 400 without a call
\* of the AI upstream when the prompt is missing or too long or the messages
\* are malformed, and 502 when the call fails at the transport level.
C23_Answers400And502 ==
  \A k \in 1..ngreq :
    /\ (NoUsableInput(k) \/ Oversized(k)) => Answered400WithoutCall(k)
    /\ TransportFailure(k) => greq[k].pc = "done" /\ greq[k].status = 502

\* C23, what holds: the 400 answers, in every server; 502 on a transport
\* failure in builder, nova and companion, and 500 in sylva.
C23_Answers400And502Or500 ==
  \A k \in 1..ngreq :
    /\ (NoUsableInput(k) \/ Oversized(k)) => Answered400WithoutCall(k)
    /\ TransportFailure(k) =>
          /\ greq[k].pc = "done"
          /\ greq[k].structured
          /\ greq[k].status = (IF server = "sylva" THEN 500 ELSE 502)

\* The call of the AI upstream failed at the transport level in sylva and
\* the request was answered 500.
C23_Witness ==
  \E k \in 1..ngreq :
    /\ server = "sylva"
    /\ TransportFailure(k)
    /\ greq[k].status = 500

\* The entries the servers have sent: the bodies of the 200 answers.
EntriesSent ==
  UNION {{req[r].body[i] : i \in 1..Len(req[r].body)} :
           r \in {q \in 1..MaxRequests : req[q].status = 200}}

\* The upstream record has a name that is not made of spaces alone.
HasShownName(id) ==
  /\ Catalogue[id].name \notin {UNDEFINED, ""}
  /\ Trim(Catalogue[id].name) # ""

BlankName(id) == Catalogue[id].name \notin {UNDEFINED, ""} /\ ~HasShownName(id)

\* C24 as stated: every entry returned has a title that is not empty; where
\* the record's name is absent, empty or made of spaces alone (and it has no
\* title of its own) the title is the placeholder.
C24_TitleNeverEmpty ==
  \A e \in EntriesSent :
    /\ e.title # ""
    /\ (~HasShownName(e.id) /\ Catalogue[e.id].title \in {UNDEFINED, ""})
          => e.title = "Untitled"

\* C24, what holds: the placeholder stands in for a name that is absent or
\* empty (when the record has no title of its own), and an entry whose name
\* is made of spaces alone has the empty title.
C24_PlaceholderUnlessBlank ==
  \A e \in EntriesSent :
    /\ (Catalogue[e.id].name \in {UNDEFINED, ""} /\ Catalogue[e.id].title \in {UNDEFINED, ""})
          => e.title = "Untitled"
    /\ BlankName(e.id) => e.title = ""
    /\ HasShownName(e.id) => e.title # ""

\* An entry with the empty title was sent, for a record with a name of spaces.
C24_Witness ==
  \E e \in EntriesSent : BlankName(e.id) /\ e.title = ""

\* Request r was a listBooks(false) that found no cache on arrival and has
\* completed its own aggregation with success.
AggregatedUncached(r) ==
  /\ req[r].pc = "done"
  /\ req[r].status = 200
  /\ ~req[r].showAll
  /\ ~req[r].sawCache
  /\ ~req[r].fromCache

\* Request r has fetched page 1 and every further page the header declared.
FetchedEveryPage(r) ==
  {req[r].fetchLog[i] : i \in 1..Len(req[r].fetchLog)}
    = {1} \cup {p \in 2..Len(pages) : ~req[r].totalPages.nan /\ p <= req[r].totalPages.n}

\* No book was marked In Catalog after the first request had arrived: every
\* request saw the same upstream data.
SameUpstreamData == \A id \in Markable : markedAt[id] \in {-1, 0}

\* In this step request r, a listBooks(false), completes with success.
CompletesUncached(r) ==
  /\ req[r].pc # "done"
  /\ req'[r].pc = "done"
  /\ req'[r].status = 200
  /\ ~req'[r].showAll

\* Two requests that both found the cache absent (neither had completed when
\* the other arrived) have both completed.
BothAggregated(r, q) == r # q /\ AggregatedUncached(r) /\ AggregatedUncached(q)

SortedByTitle(entries) ==
  \A i, j \in 1..Len(entries) :
    i < j => TitleCompare[entries[i].title, entries[j].title] <= 0

\* The entry is one the junk filter drops: not marked In Catalog, with a
\* keyword in the slug of its link or in its name.
JunkEntry(e) ==
  /\ ~e.inCatalog
  /\ \/ SlugJunk[Catalogue[e.id].link]
     \/ TitleJunk[Catalogue[e.id].name]

\* Request r is a filtered aggregation that has completed with success.
FilteredAggregation(r) ==
  /\ req[r].pc = "done"
  /\ req[r].status = 200
  /\ ~req[r].showAll
  /\ ~req[r].fromCache

\* C26: the cache is absent, or it holds the whole result of one filtered
\* aggregation that completed with success, sorted by title and without a
\* junk record, together with the time of that completion; entries and time
\* are written in one step.
C26_CacheIsOneWholeResult ==
  /\ [](IF booksCache = Null
        THEN booksCacheTime = 0
        ELSE /\ variant = "parallel"
             /\ \E r \in 1..MaxRequests :
                   FilteredAggregation(r) /\ Val(booksCache) = req[r].body
             /\ SortedByTitle(Val(booksCache))
             /\ \A i \in 1..Len(Val(booksCache)) : ~JunkEntry(Val(booksCache)[i])
             /\ booksCacheTime \in StartTime..now)
  /\ [][(booksCache' # booksCache \/ booksCacheTime' # booksCacheTime) =>
          /\ booksCacheTime' = now'
          /\ \E r \in 1..MaxRequests :
                /\ req[r].pc # "done"
                /\ FilteredAggregation(r)'
                /\ booksCache' = Some(req'[r].body)]_vars

\* The cache holds a sorted result of several entries from which a junk
\* record of the upstream was dropped.
C26_Witness ==
  /\ Truthy(booksCache)
  /\ Len(Val(booksCache)) >= 2
  /\ booksCacheTime > StartTime
  /\ \E p \in 1..Len(pages) : \E i \in 1..Len(pages[p]) :
        /\ isJunkBook(RawBook(pages[p][i]))
        /\ \A k \in 1..Len(Val(booksCache)) : Val(booksCache)[k].id # pages[p][i]

\* In this step request r of /api/books is answered with a failure, from the
\* cache, or as a listBooks(true).
AnsweredOtherwise(r) ==
  /\ req[r].pc # "done"
  /\ req'[r].pc = "done"
  /\ req'[r].status = 502 \/ req'[r].fromCache \/ req'[r].showAll

\* C27: the cache is absent when the process starts, and only a
\* listBooks(false) aggregation completing with success changes it: a failed
\* aggregation, a cache hit, a listBooks(true), and every step of /api/toc,
\* /api/chapter, /api/fetch-url and /api/generate leave the entries and the
\* time as they are.
C27_OnlyFilteredSuccessWritesCache ==
  /\ [](proc = "starting" => booksCache = Null /\ booksCacheTime = 0)
  /\ [][(booksCache' # booksCache \/ booksCacheTime' # booksCacheTime) =>
          \E r \in 1..MaxRequests :
            /\ req[r].pc # "done"
            /\ FilteredAggregation(r)'
            /\ req[r].failed = {} /\ req'[r].failed = {}]_vars
  /\ [][(\/ \E r \in 1..MaxRequests : AnsweredOtherwise(r)
         \/ creq' # creq
         \/ freq' # freq
         \/ greq' # greq
         \/ proc' # proc) =>
          UNCHANGED << booksCache, booksCacheTime >>]_vars

\* The cache was written, a later listBooks(false) was answered from it, a
\* request of another route was answered, and the cache stands.
C27_Witness ==
  /\ Truthy(booksCache)
  /\ \E r \in 1..MaxRequests : req[r].fromCache /\ Val(booksCache) = req[r].body
  /\ \/ ngreq = 1 /\ greq[1].pc = "done" /\ greq[1].status = 200
     \/ ncreq = 1 /\ creq[1].pc = "done"

\* The pages request r has asked the upstream for.
Requested(r) == {req[r].fetchLog[i] : i \in 1..Len(req[r].fetchLog)}

\* Request r is done, without a failure, after asking for page p, which has
\* zero records and comes before the last page the header declared.
WasEmptyBeforeLast(r, p) ==
  /\ req[r].pc = "done"
  /\ ~req[r].fromCache
  /\ p \in Requested(r)
  /\ p \in 1..Len(pages) /\ Len(pages[p]) = 0
  /\ parseInt(HeaderOr1).n > p
  /\ req[r].failed = {}

\* The result built from the pages before page p.
ResultBefore(p, showAll) == Aggregate([q \in 1..(p - 1) |-> ServePage(q)], showAll)

\* The result built from every page of the upstream.
ResultOfAll(showAll) == Aggregate([q \in 1..Len(pages) |-> ServePage(q)], showAll)

NoUsableTotal ==
  \/ hdr = Null
  \/ Val(hdr) \in {UNDEFINED, ""}
  \/ parseInt(Val(hdr)).nan

\* C29: when page 1 declares no total page count, or one that cannot be
\* parsed, the aggregation is that of a total of 1: page 1 is the only page
\* ever requested, and the result is built from page 1 alone.
C29_NoTotalMeansOnePage ==
  NoUsableTotal =>
    \A r \in 1..MaxRequests :
      /\ Requested(r) \subseteq {1}
      /\ Len(req[r].fetchLog) <= 1
      /\ (req[r].pc = "done" /\ ~req[r].fromCache /\ req[r].failed = {}) =>
            /\ req[r].fetchLog = <<1>>
            /\ req[r].status = 200
            /\ req[r].body = Aggregate(1 :> ServePage(1), req[r].showAll)

\* The upstream has two pages and a total that is not a number, and a
\* request was answered with the records of page 1 after one fetch.
C29_Witness ==
  /\ NoUsableTotal
  /\ hdr # Null
  /\ Len(pages) = 2
  /\ \E r \in 1..MaxRequests :
        /\ req[r].pc = "done" /\ req[r].status = 200 /\ ~req[r].fromCache
        /\ req[r].fetchLog = <<1>>
        /\ Len(req[r].body) > 0

\* The outcomes that are a response with a status that is not a success.
HttpFailures == {"http_error", "http_404", "http_503"}

\* Request r was answered 502 for a page that returned such a status.
FailedOnStatus(r) ==
  /\ req[r].pc = "done"
  /\ req[r].status = 502
  /\ req[r].error # <<>>
  /\ req[r].error[2] \in HttpFailures

\* The first of the pages of request r, in the order their fetches settled,
\* that failed.
FirstFailed(r) ==
  LET k == CHOOSE i \in 1..Len(req[r].order) :
             /\ req[r].outcomes[req[r].order[i]] # "ok"
             /\ \A j \in 1..(i - 1) : req[r].outcomes[req[r].order[j]] = "ok"
  IN req[r].order[k]

\* C30: the error of an aggregation that failed on a status names a page
\* whose fetch did fail, with the status that page returned, also when more
\* than one of the concurrent fetches fails: it is the first that failed.
C30_ErrorNamesAFailedPage ==
  \A r \in 1..MaxRequests :
    FailedOnStatus(r) =>
      /\ req[r].error[1] \in req[r].failed
      /\ req[r].error[1] \in Requested(r)
      /\ req[r].outcomes[req[r].error[1]] = req[r].error[2]
      /\ req[r].error[1] = FirstFailed(r)

\* Two concurrent fetches of one request failed with different statuses, and
\* the error names the first of them with its status.
C30_Witness ==
  \E r \in 1..MaxRequests :
    /\ FailedOnStatus(r)
    /\ {2, 3} \subseteq req[r].failed
    /\ req[r].outcomes[2] \in HttpFailures
    /\ req[r].outcomes[3] \in HttpFailures
    /\ req[r].outcomes[2] # req[r].outcomes[3]
    /\ req[r].error = <<3, req[r].outcomes[3]>>

\* The status a fetch-url request gets when it is alone in the server, from
\* what its own URL, its own wait and its own upstream came to.
StatusAlone(rec) ==
  IF rec.fetched = UNDEFINED THEN 400
  ELSE IF rec.upstream = Null
  THEN (IF rec.waited >= FETCH_URL_TIMEOUT_MS THEN 504 ELSE 502)
  ELSE IF Val(rec.upstream).status \notin 200..299 THEN 502
  ELSE IF ~Supported(Val(rec.upstream).contentType) THEN 415
  ELSE IF rec.page = 0 THEN 502
  ELSE IF Len(PageText[rec.page]) < 20 THEN 422
  ELSE 200

\* In this step the timer of request k fires and the request is answered 504.
TimesOut(k) == freq[k].pc = "headers" /\ freq'[k].pc = "done" /\ freq'[k].status = 504

\* C31: the timeout of one fetch-url request ends that request alone: in
\* the step in which it fires no other request of any route changes, and
\* every request is answered as it would be alone in the server.
C31_TimeoutCancelsOneRequest ==
  /\ [](\A k \in 1..FetchSlots :
          freq[k].pc = "done" => freq[k].status = StatusAlone(freq[k]))
  /\ [](\A k \in 1..MaxContentRequests :
          creq[k].pc = "done" /\ Truthy(creq[k].upstream) =>
            creq[k].status = (IF Truthy(ContentFailure(Val(creq[k].upstream)))
                              THEN 502 ELSE 200))
  /\ [][\A k \in 1..FetchSlots :
          TimesOut(k) =>
            /\ \A j \in 1..FetchSlots \ {k} : freq'[j] = freq[j]
            /\ UNCHANGED << creq, req, greq, booksCache, booksCacheTime, proc >>]_vars

\* One request has timed out while another that was waiting beside it went
\* on to its 200, and a request of /api/toc was answered too.
C31_Witness ==
  \E k, j \in 1..FetchSlots :
    /\ k # j
    /\ freq[k].status = 504
    /\ freq[j].status = 200
    /\ freq[j].waited > 0
    /\ creq[1].status = 200

\* The keywords, as the specification counts them.
SlugKeywords ==
  {"sandbox", "sample", "test", "demo", "h5p", "hypothesis", "import", "workshop",
   "template", "training", "trial", "temp", "-dev", "devsite", "dev2"}
TitleKeywords ==
  {"sandbox", "sample", "testbook", "test book", "demo book", "workshop", "template",
   "dev site", "dev 2"}

\* The slug derived from a link, in lower case, and the name in lower case.
LowerSlug(b) == SlugOf(b.link)
LowerName(b) == toLowerCase(IF b.metadata.name = UNDEFINED THEN "" ELSE b.metadata.name)

\* C32: isJunkBook returns true exactly for a record whose In Catalog flag is
\* not the value true and whose slug, in lower case, contains one of the 15
\* slug keywords or whose name, in lower case, contains one of the 9 title
\* keywords; the call changes neither the record nor anything in the server.
C32_JunkExactlyByFlagAndKeywords ==
  /\ Cardinality(SlugKeywords) = 15 /\ Cardinality(TitleKeywords) = 9
  /\ [](Truthy(junkCall) =>
          LET c == Val(junkCall)
          IN /\ c.returned =
                  (/\ c.given.metadata.inCatalog # JsTrue
                   /\ \/ \E w \in SlugKeywords : Includes(LowerSlug(c.given), w)
                      \/ \E w \in TitleKeywords : Includes(LowerName(c.given), w))
             /\ c.b = c.given)
  /\ [][junkCall' # junkCall =>
          UNCHANGED << booksCache, booksCacheTime, pages, hdr, inCatalog, req, creq,
                       freq, greq, proc >>]_vars

\* isJunkBook has returned true for a record with a keyword in capitals in
\* its name alone, and whose flag is the string 'true'.
C32_Witness ==
  /\ Truthy(junkCall)
  /\ Val(junkCall).returned
  /\ Val(junkCall).given.metadata.name = "Chem TEST Book"
  /\ Val(junkCall).given.link = "https://chem.pressbooks.tru.ca/"
  /\ Val(junkCall).given.metadata.inCatalog = JsStringTrue

\* The keyword tests on what an entry shows: its title and its link, in lower
\* case, tabulated over the titles and links entries can have.
EntryLinks == {EntryLink[l] : l \in CatalogueLinks}
ShownTitleJunk ==
  [t \in EntryTitles |-> \E w \in TitleKeywords : Includes(toLowerCase(t), w)]
ShownLinkJunk ==
  [l \in EntryLinks |-> \E w \in SlugKeywords : Includes(toLowerCase(l), w)]

\* The entries of the filtered 200 answers, fresh or from the cache.
FilteredEntriesSent ==
  UNION {{req[r].body[i] : i \in 1..Len(req[r].body)} :
           r \in {q \in 1..MaxRequests : req[q].status = 200 /\ ~req[q].showAll}}

\* The title of the entry was taken from the record's own title, its
\* metadata having no name.
TitleFromRecord(e) ==
  /\ Catalogue[e.id].name \in {UNDEFINED, ""}
  /\ Catalogue[e.id].title \notin {UNDEFINED, ""}

\* C33 as stated: every entry of a filtered answer is flagged In Catalog, or
\* its title holds no title keyword and its link holds no slug keyword.
C33_NoJunkShown ==
  \A e \in FilteredEntriesSent :
     e.inCatalog \/ (~ShownTitleJunk[e.title] /\ ~ShownLinkJunk[e.link])

\* C33, what holds: every entry of a filtered answer is flagged In Catalog, or
\* its link holds no slug keyword and its record's metadata.name holds no
\* title keyword; a title keyword is shown only in a title that was taken
\* from the record's own title.
C33_NoJunkShownUnlessTitleFromRecord ==
  \A e \in FilteredEntriesSent :
     e.inCatalog
     \/ /\ ~ShownLinkJunk[e.link]
        /\ ~TitleJunk[Catalogue[e.id].name]
        /\ ShownTitleJunk[e.title] => TitleFromRecord(e)

\* A filtered answer shows an entry that is not In Catalog under a title
\* with a keyword in it.
C33_Witness ==
  \E e \in FilteredEntriesSent :
     ~e.inCatalog /\ ShownTitleJunk[e.title] /\ e.title = "Field Sample Book"

\* Request r has been answered from the upstream and every fetch it issued
\* has settled.
SettledAggregation(r) ==
  /\ req[r].pc = "done"
  /\ ~req[r].fromCache
  /\ req[r].inflight = {}

\* What the sequential handler answers to the page responses request r met.
SequentialAnswer(r) ==
  listBooksSequential(req[r].outcomes, req[r].showAll, parseInt(HeaderOr1), 1, <<>>)

AnswerOf(r) == [status |-> req[r].status, body |-> req[r].body]

\* Under the page responses request r met, the sequential loop ends at an
\* empty page that is not the declared last one.
RECURSIVE EndsAtEmptyPage(_, _, _)
EndsAtEmptyPage(oc, total, page) ==
  /\ oc[page] = "ok"
  /\ IF Len(ServePage(page)) = 0 THEN LessEq(page + 1, total)
     ELSE LessEq(page + 1, total) /\ EndsAtEmptyPage(oc, total, page + 1)

EndsEarly(r) == EndsAtEmptyPage(req[r].outcomes, parseInt(HeaderOr1), 1)

CacheExpired == booksCache # Null /\ now - booksCacheTime >= 10 * 60 * 1000

\* Request r is answered in this step.
AnsweredNow(r) == req[r].pc # "done" /\ req'[r].pc = "done"

\* C35: a request is answered from the cache only when it is filtered and the
\* entries were captured less than 10 minutes before; an expired cache
\* answers no request, it stays expired while it is not written, and a
\* refresh that fails answers 502 and leaves entries and capture time as
\* they were; only a filtered aggregation that succeeds replaces them.
C35_ExpiredCacheIsNeverServed ==
  [][/\ \A r \in 1..MaxRequests :
          /\ (AnsweredNow(r) /\ req'[r].fromCache) =>
                /\ ~req'[r].showAll
                /\ booksCache # Null
                /\ now - booksCacheTime < 10 * 60 * 1000
                /\ req'[r].body = Val(booksCache)
          /\ (AnsweredNow(r) /\ CacheExpired) => ~req'[r].fromCache
          /\ (AnsweredNow(r) /\ req'[r].status = 502) =>
                UNCHANGED << booksCache, booksCacheTime >>
     /\ (CacheExpired /\ UNCHANGED << booksCache, booksCacheTime >>) => CacheExpired'
     /\ ~UNCHANGED << booksCache, booksCacheTime >> =>
          \E r \in 1..MaxRequests :
             /\ AnsweredNow(r) /\ req'[r].status = 200
             /\ ~req'[r].fromCache /\ ~req'[r].showAll
             /\ booksCache' = Some(req'[r].body) /\ booksCacheTime' = now']_vars

\* A filtered request that arrived with the cache expired has been answered
\* 502, its refresh having failed, and the expired cache is still in place.
C35_Witness ==
  \E r \in 1..MaxRequests :
     /\ CacheExpired
     /\ req[r].pc = "done" /\ req[r].status = 502
     /\ ~req[r].showAll /\ req[r].sawCache /\ ~req[r].fromCache

\* Request q made the write that the cache holds (the last one made).
CacheHeldBy(q) ==
  /\ req[q].cacheWrite > 0
  /\ \A o \in 1..MaxRequests : req[o].cacheWrite <= req[q].cacheWrite

\* In this step request r writes the cache.
WritesCache(r) == req[r].cacheWrite = 0 /\ req'[r].cacheWrite > 0

\* Request r fetched page 1 before request q did: the fetch is issued in the
\* step in which the request arrives, and requests are numbered as they
\* arrive.
BeganEarlier(r, q) == r < q

\* C36 as stated: no write of the cache replaces the entries of an
\* aggregation by those of one whose page-1 fetch began earlier.
C36_CacheNeverRegresses ==
  [][\A r, q \in 1..MaxRequests :
       (WritesCache(r) /\ CacheHeldBy(q)) => ~BeganEarlier(r, q)]_vars

\* C36, what holds: every filtered aggregation that succeeds writes the
\* cache in the step in which it completes, whatever the cache holds and
\* whenever its page-1 fetch began; the cache holds the result of the one
\* that completed last.
C36_LastToCompleteWins ==
  /\ [](variant = "parallel" =>
          /\ \A q \in 1..MaxRequests :
                /\ FilteredAggregation(q) => req[q].cacheWrite > 0
                /\ CacheHeldBy(q) => FilteredAggregation(q) /\ booksCache = Some(req[q].body)
          /\ booksCache # Null => \E q \in 1..MaxRequests : CacheHeldBy(q))
  /\ [][\A r \in 1..MaxRequests :
          WritesCache(r) =>
             /\ CompletesUncached(r)
             /\ booksCache' = Some(req'[r].body)
             /\ CacheHeldBy(r)']_vars

\* The request that began first has completed last and has replaced the
\* entries of the second, which held a book marked In Catalog after the
\* first had fetched its page, by entries without that book.
C36_Witness ==
  /\ req[1].cacheWrite = 2 /\ req[2].cacheWrite = 1
  /\ booksCache = Some(req[1].body)
  /\ \E i \in 1..Len(req[2].body) :
        /\ req[2].body[i].id \in Markable
        /\ \A j \in 1..Len(req[1].body) : req[1].body[j].id # req[2].body[i].id

\* The pages 1..n in order.
RECURSIVE PagesUpTo(_)
PagesUpTo(n) == IF n = 0 THEN <<>> ELSE Append(PagesUpTo(n - 1), n)

\* C37: with every issued fetch coming to an end, every /api/books, /api/toc
\* and /api/chapter request is answered, and no request is ever answered
\* twice; a sequential aggregation fetches the pages 1, 2, ... in order, at
\* most as many as page 1 declared, with never more than one fetch pending
\* and every page fetched only when the one before it has been answered.
C37_EveryRequestAnsweredOnce ==
  /\ \A r \in 1..MaxRequests :
        (req[r].pc # "none") ~> (req[r].pc = "done" /\ req[r].responses = 1 /\ req[r].inflight = {})
  /\ \A k \in 1..MaxContentRequests :
        (creq[k].pc # "none") ~> (creq[k].pc = "done" /\ creq[k].status # 0)
  /\ [](\A r \in 1..MaxRequests :
          /\ req[r].responses <= 1
          /\ (req[r].responses = 1) = (req[r].pc = "done")
          /\ (req[r].status # 0) = (req[r].pc = "done")
          /\ variant = "sequential" =>
                /\ req[r].fetchLog = PagesUpTo(Len(req[r].fetchLog))
                /\ Len(req[r].fetchLog) <= DeclaredPages
                /\ req[r].peak <= 1
                /\ Len(req[r].fetchLog) - Len(req[r].order) = Cardinality(req[r].inflight)
                /\ req[r].order = PagesUpTo(Len(req[r].order)))
  /\ [](\A k \in 1..MaxContentRequests : (creq[k].status # 0) = (creq[k].pc = "done"))
  /\ [][/\ \A r \in 1..MaxRequests :
             req[r].pc = "done" =>
                /\ req'[r].status = req[r].status /\ req'[r].body = req[r].body
                /\ req'[r].responses = req[r].responses
        /\ \A k \in 1..MaxContentRequests :
             creq[k].pc = "done" => creq'[k] = creq[k]]_vars

\* A parallel request answered 502 whose other fetches have all settled
\* since, a sequential request answered after three fetches, and a chapter
\* request answered 200.
C37_Witness ==
  /\ \E r \in 1..MaxRequests :
        /\ req[r].pc = "done" /\ req[r].responses = 1 /\ req[r].inflight = {}
        /\ \/ variant = "parallel" /\ req[r].status = 502 /\ Len(req[r].order) = 3
           \/ variant = "sequential" /\ req[r].fetchLog = <<1, 2, 3>> /\ req[r].status = 200
  /\ \E k \in 1..MaxContentRequests :
        creq[k].pc = "done" /\ creq[k].endpoint = "chapter" /\ creq[k].status = 200

\* In this step a fetch of request r settles after r has been answered.
SettlesAfterAnswer(r) ==
  /\ req[r].pc = "done"
  /\ \E p \in req[r].inflight : p \notin req'[r].inflight

\* The pages request r has asked for.
PagesAsked(r) == {req[r].fetchLog[i] : i \in 1..Len(req[r].fetchLog)}

\* C38: the 502 of a parallel aggregation leaves the other page fetches
\* pending (each page asked for is pending or has settled, none is dropped);
\* when one of them settles afterwards, with success or failure, the request's
\* answer stays as it was, no response is added, the cache is not written and
\* every other request is left as it was.
C38_LateSiblingsChangeNothing ==
  /\ [](\A r \in 1..MaxRequests :
          /\ req[r].responses <= 1
          /\ variant = "parallel" /\ req[r].status = 502 =>
                /\ PagesAsked(r) = req[r].inflight \cup DOMAIN req[r].outcomes
                /\ req[r].inflight \cap DOMAIN req[r].outcomes = {}
                /\ req[r].cacheWrite = 0)
  /\ [][\A r \in 1..MaxRequests :
          SettlesAfterAnswer(r) =>
             /\ req'[r].status = req[r].status /\ req'[r].error = req[r].error
             /\ req'[r].body = req[r].body /\ req'[r].responses = req[r].responses
             /\ req'[r].cacheWrite = req[r].cacheWrite
             /\ UNCHANGED << booksCache, booksCacheTime, creq, freq, greq, proc >>
             /\ \A q \in 1..MaxRequests \ {r} : req'[q] = req[q]]_vars

\* Page 2 of three failed and was answered 502; page 3 has settled since,
\* with success, beside another request that has been answered 200 and whose
\* list is in the cache.
C38_Witness ==
  /\ variant = "parallel"
  /\ req[1].status = 502 /\ req[1].error[1] = 2 /\ req[1].responses = 1
  /\ req[1].order = <<1, 2, 3>> /\ req[1].outcomes[3] = "ok"
  /\ req[2].status = 200 /\ booksCache = Some(req[2].body)

====
